---------------------------- MODULE Spec2Model ----------------------------
(***************************************************************************)
(* Model of src/domino_qa_mcp_server.py: the HTTP request wrapper, the     *)
(* safe-call wrapper, the job tools, the advanced-job scenario, the two    *)
(* suites, the poll loops, the hardware-tier resolution, the IDE suite,    *)
(* the environment rebuild, the stress and performance tests, the cleanup  *)
(* loops, the datasets cleanup and suite, the user and progressive suites, *)
(* module start-up, the project helpers, the hardware-tier and file-sync   *)
(* workspace tests, the advanced suite, the workspace lifecycle helpers    *)
(* and the workspace operations test.                                      *)
(*                                                                         *)
(* Each component has its own state variable (a record) and its own        *)
(* specification; a component that is not running stays Idle.              *)
(***************************************************************************)
EXTENDS Integers, Sequences, FiniteSets, TLC

VARIABLES http, safe, tool, job, suite, poll, tier, ide, rebuild, stress, perf, cleanup, ds, uat, boot, proj, prog, hw, sync, adv, wsops, life

vars == <<http, safe, tool, job, suite, poll, tier, ide, rebuild, stress, perf, cleanup, ds, uat, boot, proj, prog, hw, sync, adv, wsops, life>>

Idle == [pc |-> "idle"]

(***************************************************************************)
(* Strings are sequences of one-character strings, so that str.lower(),    *)
(* str.upper(), the `in` substring test and urllib.parse.quote are         *)
(* computed character by character.                                        *)
(***************************************************************************)
LowerChar(c) ==
  CASE c = "A" -> "a" [] c = "B" -> "b" [] c = "C" -> "c" [] c = "D" -> "d"
    [] c = "E" -> "e" [] c = "G" -> "g" [] c = "K" -> "k" [] c = "L" -> "l"
    [] c = "M" -> "m" [] c = "O" -> "o" [] c = "P" -> "p" [] c = "S" -> "s"
    [] c = "T" -> "t" [] c = "U" -> "u" [] c = "H" -> "h"
    [] OTHER -> c

UpperChar(c) ==
  CASE c = "a" -> "A" [] c = "b" -> "B" [] c = "c" -> "C" [] c = "d" -> "D"
    [] c = "e" -> "E" [] c = "g" -> "G" [] c = "k" -> "K" [] c = "l" -> "L"
    [] c = "m" -> "M" [] c = "o" -> "O" [] c = "p" -> "P" [] c = "s" -> "S"
    [] c = "t" -> "T" [] c = "u" -> "U" [] c = "h" -> "H"
    [] OTHER -> c

\* str.lower()
Lower(s) == [i \in 1..Len(s) |-> LowerChar(s[i])]

\* str.upper()
Upper(s) == [i \in 1..Len(s) |-> UpperChar(s[i])]

\* Python's `sub in s` on strings (the empty string is in every string)
Contains(sub, s) ==
  \E i \in 0..(Len(s) - Len(sub)) : SubSeq(s, i + 1, i + Len(sub)) = sub

(***************************************************************************)
(* JSON values, as far as the code looks at them: the type, the keys of a  *)
(* mapping, and an identity that tells two payloads apart.                 *)
(***************************************************************************)
DictValue(keys, id) == [type |-> "dict", keys |-> keys, id |-> id]

BodyDict == DictValue({"id"}, 1)

BodyDictWithError == DictValue({"error"}, 2)

BodyList == [type |-> "list", keys |-> {}, id |-> 3]

JsonBodies == {BodyDict, BodyDictWithError, BodyList}

(***************************************************************************)
(* _make_api_request                                                       *)
(***************************************************************************)
MethodGET == <<"G", "E", "T">>

MethodPOST == <<"P", "O", "S", "T">>

MethodPUT == <<"P", "U", "T">>

MethodDELETE == <<"D", "E", "L", "E", "T", "E">>

\* the method strings a caller may pass
Methods ==
  {MethodGET, MethodPOST, MethodPUT, MethodDELETE,
   <<"g", "e", "t">>, <<"P", "o", "s", "t">>, <<"P", "A", "T", "C", "H">>,
   <<"h", "e", "a", "d">>, <<>>}

\* the status codes of a final response of the requests library
HttpStatuses == {200, 201, 204, 300, 304, 403, 404, 500, 503}

\* exception classes raised inside requests.get/post/put/delete
RequestExceptionClasses == {"ConnectionError", "Timeout", "TooManyRedirects", "HTTPError"}

OtherExceptionClasses == {"TypeError", "ValueError"}

\* what one call of requests.<method>(...) can do
NetOutcomes ==
  [kind : {"raise"}, exc : {"ConnectionError", "Timeout", "TooManyRedirects", "TypeError"},
   status : {0}, json : {FALSE}, body : {BodyList}]
  \cup [kind : {"response"}, exc : {"none"}, status : HttpStatuses,
        json : {TRUE}, body : JsonBodies]
  \cup [kind : {"response"}, exc : {"none"}, status : HttpStatuses,
        json : {FALSE}, body : {BodyList}]

Is2xx(status) == status >= 200 /\ status < 300

\* requests.Response.raise_for_status: HTTPError for 4xx and 5xx only
RaisesForStatus(status) == status >= 400 /\ status < 600

\* `except requests.exceptions.RequestException`
IsRequestException(exc) == exc \in RequestExceptionClasses

\* `except Exception`
IsException(exc) == exc \in RequestExceptionClasses \cup OtherExceptionClasses

\* the three-key error record of the RequestException handler
RequestErrorRecord == DictValue({"error", "status_code", "response_text"}, 10)

\* {"error": f"Unexpected error: {e}"}
UnexpectedErrorRecord == DictValue({"error"}, 11)

\* {"error": f"Unsupported HTTP method: {method}"}
UnsupportedMethodRecord == DictValue({"error"}, 12)

\* a text record that also carries an "error" key
TextResponseRecordWithError ==
  DictValue({"text_response", "status_code", "error"}, 13)

\* {"text_response": response.text, "status_code": response.status_code}
TextResponseRecord == DictValue({"text_response", "status_code"}, 13)

\* the same without the final `except Exception` clause
HandleRequestExceptionOnly(exc) ==
  IF IsRequestException(exc)
  THEN [raised |-> FALSE, value |-> RequestErrorRecord]
  ELSE [raised |-> TRUE, value |-> UnexpectedErrorRecord]

\* the two except clauses of _make_api_request, in order
HandleRequestException(exc) ==
  IF IsRequestException(exc)
  THEN [raised |-> FALSE, value |-> RequestErrorRecord]
  ELSE IF IsException(exc)
       THEN [raised |-> FALSE, value |-> UnexpectedErrorRecord]
       ELSE [raised |-> TRUE, value |-> UnexpectedErrorRecord]

\* a dispatch that compares the method string as written
RequestAttemptsCaseSensitive(method) ==
  IF method \in {MethodGET, MethodPOST, MethodPUT, MethodDELETE} THEN 1 ELSE 0

\* the number of requests.<method> calls made for a method string
RequestAttempts(method) ==
  IF Upper(method) \in {MethodGET, MethodPOST, MethodPUT, MethodDELETE} THEN 1 ELSE 0

\* the value _make_api_request returns (or the exception it lets through)
MakeApiRequest(method, net) ==
  IF Upper(method) \notin {MethodGET, MethodPOST, MethodPUT, MethodDELETE}
  THEN [raised |-> FALSE, value |-> UnsupportedMethodRecord]
  ELSE IF net.kind = "raise"
       THEN HandleRequestException(net.exc)
       ELSE IF RaisesForStatus(net.status)
            THEN HandleRequestException("HTTPError")
            ELSE IF net.json
                 THEN [raised |-> FALSE, value |-> net.body]
                 ELSE [raised |-> FALSE, value |-> TextResponseRecord]

\* `"error" in result`
HasError(value) == "error" \in value.keys

HttpInit ==
  /\ http \in [pc : {"call"}, method : Methods, net : NetOutcomes,
               attempts : {0}, ret : {[raised |-> FALSE, value |-> BodyList]}]
  /\ safe = Idle /\ tool = Idle /\ job = Idle /\ suite = Idle
  /\ poll = Idle /\ tier = Idle
  /\ ide = Idle
  /\ rebuild = Idle
  /\ stress = Idle
  /\ perf = Idle
  /\ cleanup = Idle
  /\ ds = Idle
  /\ uat = Idle
  /\ boot = Idle
  /\ proj = Idle
  /\ prog = Idle
  /\ hw = Idle
  /\ sync = Idle
  /\ adv = Idle
  /\ wsops = Idle
  /\ life = Idle

\* one invocation of _make_api_request
HttpRequest ==
  /\ http.pc = "call"
  /\ http' = [http EXCEPT !.pc = "done",
                          !.attempts = RequestAttempts(http.method),
                          !.ret = MakeApiRequest(http.method, http.net)]
  /\ UNCHANGED <<safe, tool, job, suite, poll, tier, ide, rebuild, stress, perf, cleanup, ds, uat, boot, proj, prog, hw, sync, adv, wsops, life>>

HttpNext == HttpRequest

SpecHttp == HttpInit /\ [][HttpNext]_vars

\* the method string is one of the four the wrapper dispatches on
HttpSupported == Upper(http.method) \in {MethodGET, MethodPOST, MethodPUT, MethodDELETE}

\* the request was made and completed with a 2xx status
HttpCompleted2xx ==
  HttpSupported /\ http.net.kind = "response" /\ Is2xx(http.net.status)

\* the request was not made, raised, or completed with a 4xx or 5xx status
HttpFailed ==
  \/ ~HttpSupported
  \/ http.net.kind = "raise"
  \/ http.net.kind = "response" /\ RaisesForStatus(http.net.status)

\* C1 as stated: the wrapper never raises, and whenever the request did not
\* complete with a 2xx status it returns a mapping that has an "error" key.
C1_AsStated ==
  http.pc = "done" =>
    /\ ~http.ret.raised
    /\ (~HttpCompleted2xx =>
          http.ret.value.type = "dict" /\ HasError(http.ret.value))

\* C1 (amended): the wrapper never raises, and whenever the method is
\* unsupported, the request raised (connection error, timeout, any other
\* exception) or it completed with a 4xx or 5xx status, the wrapper returns
\* a mapping that has an "error" key.
C1_NeverRaisesErrorOnFailure ==
  http.pc = "done" =>
    /\ ~http.ret.raised
    /\ (HttpFailed =>
          http.ret.value.type = "dict" /\ HasError(http.ret.value))

\* a lower-case method string was dispatched and the request raised an
\* exception that is no RequestException; the error record came back
C1_Witness ==
  /\ http.pc = "done"
  /\ http.method = <<"g", "e", "t">>
  /\ http.attempts = 1
  /\ http.net.kind = "raise" /\ http.net.exc = "TypeError"
  /\ http.ret = [raised |-> FALSE, value |-> UnexpectedErrorRecord]

(***************************************************************************)
(* _safe_execute                                                           *)
(***************************************************************************)
\* a bound of the model: how many _safe_execute calls one run makes
MaxSafeCalls == 4

\* a returned object json.dumps cannot encode (TypeError)
BodyObject == [type |-> "object", keys |-> {}, id |-> 5]

\* json.dumps(result) succeeds
JsonEncodable(value) == value.type \in {"dict", "list", "str"}

\* str(result)
StrOf(value) == [type |-> "str", keys |-> {}, id |-> value.id]

Text404 == <<"4", "0", "4">>

TextEndpoint == <<"e", "n", "d", "p", "o", "i", "n", "t">>

\* exception messages: str(e)
ErrorMessages ==
  {<<"4", "0", "4">>,
   <<"H", "T", "T", "P", " ", "4", "0", "4", " ", "N", "o", "t", " ", "F", "o", "u", "n", "d">>,
   <<"4", "0", "4", " ", "E", "n", "d", "p", "o", "i", "n", "t">>,
   <<"j", "o", "b", " ", "1", "4", "0", "4", "5">>,
   <<"b", "a", "d", " ", "e", "n", "d", "p", "o", "i", "n", "t">>,
   <<"4", "0", " ", "4">>,
   <<"5", "0", "0">>,
   <<>>}

\* what the wrapped operation does when it is invoked
FuncOutcomes ==
  [kind : {"return"}, value : {BodyDict, BodyList, BodyObject, StrOf(BodyDict)},
   exc : {"none"}, msg : {<<>>}]
  \cup [kind : {"raise"}, value : {BodyList},
        exc : {"HTTPError", "ValueError", "TypeError"}, msg : ErrorMessages]

NoValue == [type |-> "none", keys |-> {}, id |-> 0]

\* the same with the plain "404" branch left out
SafeExecuteResultEndpointOnly(o) ==
  IF o.kind = "return"
  THEN [status |-> "PASSED",
        result |-> IF JsonEncodable(o.value) THEN o.value ELSE StrOf(o.value),
        error |-> FALSE, guidance |-> "none"]
  ELSE IF Contains(Text404, o.msg) /\ Contains(TextEndpoint, Lower(o.msg))
       THEN [status |-> "WARNING", result |-> NoValue,
             error |-> TRUE, guidance |-> "endpoint"]
       ELSE [status |-> "FAILED", result |-> NoValue,
             error |-> TRUE, guidance |-> "none"]

\* the record _safe_execute returns for an outcome of the wrapped operation
SafeExecuteResult(o) ==
  IF o.kind = "return"
  THEN [status |-> "PASSED",
        result |-> IF JsonEncodable(o.value) THEN o.value ELSE StrOf(o.value),
        error |-> FALSE, guidance |-> "none"]
  ELSE IF Contains(Text404, o.msg) /\ Contains(TextEndpoint, Lower(o.msg))
       THEN [status |-> "WARNING", result |-> NoValue,
             error |-> TRUE, guidance |-> "endpoint"]
       ELSE IF Contains(Text404, o.msg)
            THEN [status |-> "WARNING", result |-> NoValue,
                  error |-> TRUE, guidance |-> "resource"]
            ELSE [status |-> "FAILED", result |-> NoValue,
                  error |-> TRUE, guidance |-> "none"]

SafeInit ==
  /\ safe = [pc |-> "ready", entered |-> 0, calls |-> 0,
             outcome |-> [kind |-> "return", value |-> BodyList,
                          exc |-> "none", msg |-> <<>>],
             ret |-> SafeExecuteResult([kind |-> "return", value |-> BodyList,
                                        exc |-> "none", msg |-> <<>>]),
             propagated |-> FALSE]
  /\ http = Idle /\ tool = Idle /\ job = Idle /\ suite = Idle
  /\ poll = Idle /\ tier = Idle
  /\ ide = Idle
  /\ rebuild = Idle
  /\ stress = Idle
  /\ perf = Idle
  /\ cleanup = Idle
  /\ ds = Idle
  /\ uat = Idle
  /\ boot = Idle
  /\ proj = Idle
  /\ prog = Idle
  /\ hw = Idle
  /\ sync = Idle
  /\ adv = Idle
  /\ wsops = Idle
  /\ life = Idle

\* a caller calls _safe_execute(func, description, ...)
SafeEnter ==
  /\ safe.pc \in {"ready", "done"}
  /\ safe.entered < MaxSafeCalls
  /\ ~safe.propagated
  /\ safe' = [safe EXCEPT !.pc = "entered", !.entered = @ + 1]
  /\ UNCHANGED <<http, tool, job, suite, poll, tier, ide, rebuild, stress, perf, cleanup, ds, uat, boot, proj, prog, hw, sync, adv, wsops, life>>

\* result = func(*args, **kwargs)
SafeInvoke ==
  /\ safe.pc = "entered"
  /\ \E o \in FuncOutcomes :
       safe' = [safe EXCEPT !.pc = "invoked", !.calls = @ + 1, !.outcome = o]
  /\ UNCHANGED <<http, tool, job, suite, poll, tier, ide, rebuild, stress, perf, cleanup, ds, uat, boot, proj, prog, hw, sync, adv, wsops, life>>

\* a wrapper that calls the operation again when it raised
SafeReturnRetry ==
  /\ safe.pc = "invoked"
  /\ safe' = IF safe.outcome.kind = "raise"
             THEN [safe EXCEPT !.pc = "entered"]
             ELSE [safe EXCEPT !.pc = "done",
                               !.ret = SafeExecuteResult(safe.outcome)]
  /\ UNCHANGED <<http, tool, job, suite, poll, tier, ide, rebuild, stress, perf, cleanup, ds, uat, boot, proj, prog, hw, sync, adv, wsops, life>>

\* the return statements of the try body and of `except Exception`
SafeReturn ==
  /\ safe.pc = "invoked"
  /\ safe' = [safe EXCEPT !.pc = "done",
                          !.ret = SafeExecuteResult(safe.outcome),
                          !.propagated = safe.outcome.kind = "raise"
                                         /\ ~IsException(safe.outcome.exc)]
  /\ UNCHANGED <<http, tool, job, suite, poll, tier, ide, rebuild, stress, perf, cleanup, ds, uat, boot, proj, prog, hw, sync, adv, wsops, life>>

SafeNext == SafeEnter \/ SafeInvoke \/ SafeReturn

SpecSafe == SafeInit /\ [][SafeNext]_vars

\* C2: _safe_execute gives every call exactly one of three statuses: WARNING
\* when the operation raised with a message containing "404", FAILED when it
\* raised with any other message, PASSED when it returned, and then "result"
\* is the returned value, or its string form when it is not JSON-encodable.
C2_ThreeStatuses ==
  safe.pc = "done" =>
    /\ safe.ret.status \in {"PASSED", "WARNING", "FAILED"}
    /\ (safe.ret.status = "WARNING") =
         (safe.outcome.kind = "raise" /\ Contains(Text404, safe.outcome.msg))
    /\ (safe.ret.status = "FAILED") =
         (safe.outcome.kind = "raise" /\ ~Contains(Text404, safe.outcome.msg))
    /\ (safe.ret.status = "PASSED") = (safe.outcome.kind = "return")
    /\ (safe.outcome.kind = "return" /\ safe.outcome.value.type # "object" =>
          safe.ret.result = safe.outcome.value)
    /\ (safe.outcome.kind = "return" /\ safe.outcome.value.type = "object" =>
          safe.ret.result = StrOf(safe.outcome.value))

\* the operation raised "HTTP 404 Not Found" (no "endpoint" in it) and the
\* call came back as a WARNING
C2_Witness ==
  /\ safe.pc = "done"
  /\ safe.outcome.kind = "raise"
  /\ safe.outcome.msg = <<"H", "T", "T", "P", " ", "4", "0", "4", " ", "N", "o", "t", " ", "F", "o", "u", "n", "d">>
  /\ safe.ret.status = "WARNING"
  /\ safe.ret.guidance = "resource"

\* C3: _safe_execute invokes the wrapped operation exactly once per call and
\* never lets an exception of the operation through to its caller.
C3_OnceAndNoPropagation ==
  /\ ~safe.propagated
  /\ safe.pc = "entered" => safe.calls = safe.entered - 1
  /\ safe.pc \in {"ready", "invoked", "done"} => safe.calls = safe.entered

\* the second call of _safe_execute returned after its operation raised
C3_Witness ==
  /\ safe.pc = "done"
  /\ safe.entered = 2 /\ safe.calls = 2
  /\ safe.outcome.kind = "raise"
  /\ ~safe.propagated

(***************************************************************************)
(* _validate_url_parameter and the three job tools                         *)
(***************************************************************************)
\* the characters _validate_url_parameter rejects
UnsafeUrlChars == {"/", "\\", "?", "#", "&", "=", "%"}

\* urllib.parse.quote(c, safe='') of one character
QuoteChar(c) ==
  CASE c = " " -> <<"%", "2", "0">>
    [] c = "@" -> <<"%", "4", "0">>
    [] c = "/" -> <<"%", "2", "F">>
    [] c = "\\" -> <<"%", "5", "C">>
    [] c = "?" -> <<"%", "3", "F">>
    [] c = "#" -> <<"%", "2", "3">>
    [] c = "&" -> <<"%", "2", "6">>
    [] c = "=" -> <<"%", "3", "D">>
    [] c = "%" -> <<"%", "2", "5">>
    [] OTHER -> <<c>>

RECURSIVE Quote(_)
\* urllib.parse.quote(s, safe='')
Quote(s) == IF s = <<>> THEN <<>> ELSE QuoteChar(Head(s)) \o Quote(Tail(s))

\* _validate_url_parameter: ValueError on an unsafe character, else the
\* URL-encoded value
ValidateUrlParameter(s) ==
  IF \E i \in 1..Len(s) : s[i] \in UnsafeUrlChars
  THEN [raised |-> TRUE, value |-> <<>>]
  ELSE [raised |-> FALSE, value |-> Quote(s)]

\* argument values of user_name, project_name and run_id
ParamStrings ==
  {<<"b", "o", "b">>, <<"a", " ", "b">>, <<"a", "/", "b">>, <<"q", "?">>,
   <<"x", "@", "y">>, <<"5", "0", "%">>, <<>>}

ToolNames == {"run_domino_job", "check_domino_job_run_status",
              "check_domino_job_run_results"}

\* the parameters a tool validates, in the order it validates them
ToolParams(t) ==
  IF t.name = "run_domino_job"
  THEN <<t.user_name, t.project_name>>
  ELSE <<t.user_name, t.project_name, t.run_id>>

\* {"error": f"API request failed: {e}"} and {"error": f"An unexpected error occurred: {e}"}
ToolErrorRecord == DictValue({"error"}, 20)

\* {"results": ..., "mlflow_url": ...}
ToolResultsRecord == DictValue({"results"}, 21)

\* the try/except around the request of a tool
ToolRequestResult(name, net) ==
  IF net.kind = "raise" \/ RaisesForStatus(net.status) \/ ~net.json
  THEN ToolErrorRecord
  ELSE IF name = "check_domino_job_run_results"
       THEN IF net.body.type = "dict" THEN ToolResultsRecord ELSE ToolErrorRecord
       ELSE net.body

ToolInit ==
  /\ tool \in [pc : {"validate"}, name : ToolNames, user_name : ParamStrings,
               project_name : ParamStrings, run_id : ParamStrings,
               url : {<<>>}, requests : {0},
               ret : {[raised |-> FALSE, value |-> NoValue]}]
  /\ http = Idle /\ safe = Idle /\ job = Idle /\ suite = Idle
  /\ poll = Idle /\ tier = Idle
  /\ ide = Idle
  /\ rebuild = Idle
  /\ stress = Idle
  /\ perf = Idle
  /\ cleanup = Idle
  /\ ds = Idle
  /\ uat = Idle
  /\ boot = Idle
  /\ proj = Idle
  /\ prog = Idle
  /\ hw = Idle
  /\ sync = Idle
  /\ adv = Idle
  /\ wsops = Idle
  /\ life = Idle

\* the _validate_url_parameter calls at the top of the tool, outside its try
ToolValidate ==
  /\ tool.pc = "validate"
  /\ LET ps == ToolParams(tool)
         vs == [i \in 1..Len(ps) |-> ValidateUrlParameter(ps[i])]
     IN IF \E i \in 1..Len(ps) : vs[i].raised
        THEN tool' = [tool EXCEPT !.pc = "done",
                                  !.ret = [raised |-> TRUE, value |-> NoValue]]
        ELSE tool' = [tool EXCEPT !.pc = "request",
                                  !.url = [i \in 1..Len(ps) |-> vs[i].value]]
  /\ UNCHANGED <<http, safe, job, suite, poll, tier, ide, rebuild, stress, perf, cleanup, ds, uat, boot, proj, prog, hw, sync, adv, wsops, life>>

\* the request and its two except clauses
ToolRequest ==
  /\ tool.pc = "request"
  /\ \E net \in NetOutcomes :
       tool' = [tool EXCEPT !.pc = "done", !.requests = @ + 1,
                            !.ret = [raised |-> FALSE,
                                     value |-> ToolRequestResult(tool.name, net)]]
  /\ UNCHANGED <<http, safe, job, suite, poll, tier, ide, rebuild, stress, perf, cleanup, ds, uat, boot, proj, prog, hw, sync, adv, wsops, life>>

ToolNext == ToolValidate \/ ToolRequest

SpecTool == ToolInit /\ [][ToolNext]_vars

\* C4: every tool invocation returns a structured result and never raises to
\* its caller, whatever the argument values: run_domino_job,
\* check_domino_job_run_status and check_domino_job_run_results return a
\* result mapping even when user_name, project_name or run_id holds a
\* character that URL-parameter validation rejects.
C4_ToolNeverRaises ==
  tool.pc = "done" => ~tool.ret.raised

(***************************************************************************)
(* ensure_project_exists and test_advanced_job_operations                  *)
(***************************************************************************)
\* a job or run record returned by the client library
BodyJob == DictValue({"id", "status"}, 6)

\* what a client-library method does when _safe_execute invokes it
JobFuncOutcomes ==
  [kind : {"return"}, value : {BodyJob, BodyDict, BodyList, BodyObject, DictValue({}, 7)},
   exc : {"none"}, msg : {<<>>}]
  \cup [kind : {"raise"}, value : {BodyList}, exc : {"HTTPError", "ValueError"},
        msg : {<<"4", "0", "4">>, <<"5", "0", "0">>,
               <<"4", "0", "4", " ", "E", "n", "d", "p", "o", "i", "n", "t">>}]

\* ensure_project_exists: the status it returns, from whether the client
\* could be created and what runs_list did
EnsureProjectExists(clientOk, o) ==
  IF ~clientOk THEN "ERROR"
  ELSE IF SafeExecuteResult(o).status = "PASSED" THEN "EXISTS" ELSE "NOT_FOUND"

\* the entry test_results["operations"][name] keeps of a _safe_execute call
OperationEntry(name, o) ==
  [name |-> name, status |-> SafeExecuteResult(o).status,
   raised |-> o.kind = "raise",
   has404 |-> o.kind = "raise" /\ Contains(Text404, o.msg)]

\* result.get(...) on a PASSED result raises AttributeError unless it is a dict
GetRaises(o) == SafeExecuteResult(o).result.type # "dict"

\* the overall status that looks at the last operation only
JobOverallStatusLastOnly(ops) ==
  IF ops[Len(ops)].status = "FAILED" THEN "FAILED" ELSE "PASSED"

\* failed_ops = [...]; "FAILED" if failed_ops else "PASSED"
JobOverallStatus(ops) ==
  IF \E i \in 1..Len(ops) : ops[i].status = "FAILED" THEN "FAILED" ELSE "PASSED"

JobInit ==
  /\ job = [pc |-> "start", project_status |-> "none", ops |-> <<>>,
            status |-> "none", error |-> FALSE]
  /\ http = Idle /\ safe = Idle /\ tool = Idle /\ suite = Idle
  /\ poll = Idle /\ tier = Idle
  /\ ide = Idle
  /\ rebuild = Idle
  /\ stress = Idle
  /\ perf = Idle
  /\ cleanup = Idle
  /\ ds = Idle
  /\ uat = Idle
  /\ boot = Idle
  /\ proj = Idle
  /\ prog = Idle
  /\ hw = Idle
  /\ sync = Idle
  /\ adv = Idle
  /\ wsops = Idle
  /\ life = Idle

\* the `except Exception` of the scenario
JobException == [job EXCEPT !.pc = "done", !.status = "FAILED", !.error = TRUE]

\* project_status = await ensure_project_exists(...) and the branch on it
JobEnsureProject ==
  /\ job.pc = "start"
  /\ \E clientOk \in BOOLEAN, o \in JobFuncOutcomes :
       LET st == EnsureProjectExists(clientOk, o)
       IN job' = IF st \in {"EXISTS", "CREATED", "CREATED_UNVERIFIED"}
                 THEN [job EXCEPT !.pc = "client", !.project_status = st]
                 ELSE IF st = "NOT_FOUND"
                      THEN [job EXCEPT !.pc = "done", !.project_status = st,
                                       !.status = "SKIPPED"]
                      ELSE [job EXCEPT !.pc = "done", !.project_status = st,
                                       !.status = "FAILED", !.error = TRUE]
  /\ UNCHANGED <<http, safe, tool, suite, poll, tier, ide, rebuild, stress, perf, cleanup, ds, uat, boot, proj, prog, hw, sync, adv, wsops, life>>

\* domino = _create_domino_client(...); validated_tier = _validate_hardware_tier(...)
JobCreateClient ==
  /\ job.pc = "client"
  /\ \E clientOk \in BOOLEAN :
       job' = IF clientOk THEN [job EXCEPT !.pc = "list_jobs"] ELSE JobException
  /\ UNCHANGED <<http, safe, tool, suite, poll, tier, ide, rebuild, stress, perf, cleanup, ds, uat, boot, proj, prog, hw, sync, adv, wsops, life>>

\* Test 1: list_jobs
JobListJobs ==
  /\ job.pc = "list_jobs"
  /\ \E o \in JobFuncOutcomes :
       job' = [job EXCEPT !.pc = "start_job",
                          !.ops = Append(@, OperationEntry("list_jobs", o))]
  /\ UNCHANGED <<http, safe, tool, suite, poll, tier, ide, rebuild, stress, perf, cleanup, ds, uat, boot, proj, prog, hw, sync, adv, wsops, life>>

\* Test 2: start_job, and job_id = job_start_result["result"].get("id")
JobStartJob ==
  /\ job.pc = "start_job"
  /\ \E o \in JobFuncOutcomes :
       LET ops == Append(job.ops, OperationEntry("start_job", o))
       IN job' = IF o.kind = "return"
                 THEN IF GetRaises(o)
                      THEN [JobException EXCEPT !.ops = ops]
                      ELSE IF "id" \in o.value.keys
                           THEN [job EXCEPT !.pc = "job_status", !.ops = ops]
                           ELSE [job EXCEPT !.pc = "blocking_job", !.ops = ops]
                 ELSE [job EXCEPT !.pc = "blocking_job", !.ops = ops]
  /\ UNCHANGED <<http, safe, tool, suite, poll, tier, ide, rebuild, stress, perf, cleanup, ds, uat, boot, proj, prog, hw, sync, adv, wsops, life>>

\* Test 3: job_status
JobStatus ==
  /\ job.pc = "job_status"
  /\ \E o \in JobFuncOutcomes :
       job' = [job EXCEPT !.pc = "job_runtime_details",
                          !.ops = Append(@, OperationEntry("job_status", o))]
  /\ UNCHANGED <<http, safe, tool, suite, poll, tier, ide, rebuild, stress, perf, cleanup, ds, uat, boot, proj, prog, hw, sync, adv, wsops, life>>

\* Test 4: job_runtime_details
JobRuntimeDetails ==
  /\ job.pc = "job_runtime_details"
  /\ \E o \in JobFuncOutcomes :
       job' = [job EXCEPT !.pc = "final_job_status",
                          !.ops = Append(@, OperationEntry("job_runtime_details", o))]
  /\ UNCHANGED <<http, safe, tool, suite, poll, tier, ide, rebuild, stress, perf, cleanup, ds, uat, boot, proj, prog, hw, sync, adv, wsops, life>>

\* Test 5: final_job_status, and the branch to Test 6
JobFinalStatus ==
  /\ job.pc = "final_job_status"
  /\ \E o \in JobFuncOutcomes, terminal \in BOOLEAN :
       LET ops == Append(job.ops, OperationEntry("final_job_status", o))
       IN job' = IF o.kind = "return"
                 THEN IF GetRaises(o)
                      THEN [JobException EXCEPT !.ops = ops]
                      ELSE IF "status" \in o.value.keys /\ terminal
                           THEN [job EXCEPT !.pc = "blocking_job", !.ops = ops]
                           ELSE [job EXCEPT !.pc = "stop_job", !.ops = ops]
                 ELSE [job EXCEPT !.pc = "blocking_job", !.ops = ops]
  /\ UNCHANGED <<http, safe, tool, suite, poll, tier, ide, rebuild, stress, perf, cleanup, ds, uat, boot, proj, prog, hw, sync, adv, wsops, life>>

\* Test 6: stop_job
JobStop ==
  /\ job.pc = "stop_job"
  /\ \E o \in JobFuncOutcomes :
       job' = [job EXCEPT !.pc = "blocking_job",
                          !.ops = Append(@, OperationEntry("stop_job", o))]
  /\ UNCHANGED <<http, safe, tool, suite, poll, tier, ide, rebuild, stress, perf, cleanup, ds, uat, boot, proj, prog, hw, sync, adv, wsops, life>>

\* Test 7: blocking_job, then the overall status
JobBlocking ==
  /\ job.pc = "blocking_job"
  /\ \E o \in JobFuncOutcomes :
       LET ops == Append(job.ops, OperationEntry("blocking_job", o))
       IN job' = [job EXCEPT !.pc = "done", !.ops = ops,
                             !.status = JobOverallStatus(ops)]
  /\ UNCHANGED <<http, safe, tool, suite, poll, tier, ide, rebuild, stress, perf, cleanup, ds, uat, boot, proj, prog, hw, sync, adv, wsops, life>>

JobNext ==
  \/ JobEnsureProject \/ JobCreateClient \/ JobListJobs \/ JobStartJob
  \/ JobStatus \/ JobRuntimeDetails \/ JobFinalStatus \/ JobStop \/ JobBlocking

SpecJob == JobInit /\ [][JobNext]_vars

\* the scenario has returned and its second sub-operation (start_job) raised
JobSecondRaised ==
  /\ job.pc = "done"
  /\ Len(job.ops) >= 2
  /\ job.ops[2].raised

\* C5 as stated: when the second of the scenario's sub-operations raises, all
\* three sub-operations are run and recorded, the second entry is FAILED and
\* the scenario's status is FAILED.
C5_AsStated ==
  JobSecondRaised =>
    /\ Len(job.ops) = 3
    /\ job.ops[2].status = "FAILED"
    /\ job.status = "FAILED"

\* C5 (amended): when the second sub-operation raises, all three
\* sub-operations are run and recorded; if the exception's message does not
\* contain "404" the second entry is FAILED and the scenario's status is
\* FAILED; if it contains "404" the second entry is WARNING, and the
\* scenario's status is FAILED exactly when some entry is FAILED.
C5_ThreeRecordedAnyFailed ==
  JobSecondRaised =>
    /\ Len(job.ops) = 3
    /\ <<job.ops[1].name, job.ops[2].name, job.ops[3].name>>
         = <<"list_jobs", "start_job", "blocking_job">>
    /\ (~job.ops[2].has404 =>
          job.ops[2].status = "FAILED" /\ job.status = "FAILED")
    /\ (job.ops[2].has404 =>
          /\ job.ops[2].status = "WARNING"
          /\ (job.status = "FAILED") =
               (\E i \in 1..3 : job.ops[i].status = "FAILED")
          /\ job.status \in {"FAILED", "PASSED"})

\* start_job raised "500" between a passing list_jobs and a passing
\* blocking_job, and the scenario came back FAILED with three entries
C5_Witness ==
  /\ JobSecondRaised
  /\ ~job.ops[2].has404
  /\ Len(job.ops) = 3
  /\ job.ops[1].status = "PASSED"
  /\ job.ops[3].status = "PASSED"
  /\ job.status = "FAILED"

(***************************************************************************)
(* run_master_comprehensive_uat_suite and                                  *)
(* run_comprehensive_gap_analysis_uat_suite                                *)
(***************************************************************************)
\* test_suite of the master suite: the "function" of each entry, in order
MasterSuite ==
  <<"test_post_upgrade_env_rebuild", "test_file_management_operations",
    "test_file_version_reversion", "test_project_copying",
    "test_project_forking", "test_advanced_job_operations",
    "test_job_scheduling", "test_comprehensive_ide_workspace_suite",
    "test_workspace_file_sync", "test_workspace_hardware_tiers",
    "enhanced_test_dataset_operations", "test_model_api_publish",
    "test_app_publish", "run_admin_portal_uat_suite">>

\* the scenarios the gap-analysis suite awaits, in order
GapSuite ==
  <<"test_environment_creation", "test_environment_package_building",
    "test_environment_package_building", "test_environment_migration_scripts",
    "test_project_copying", "test_project_forking",
    "test_file_version_reversion", "test_workspace_ide_specific",
    "test_workspace_ide_specific", "test_workspace_ide_specific",
    "test_workspace_sidebar_functionality", "test_dataset_mounting",
    "test_job_scheduling", "test_job_email_notifications">>

\* the functions the module defines, among those the suites name
DefinedFunctions ==
  {MasterSuite[i] : i \in 1..Len(MasterSuite)}
    \cup ({GapSuite[i] : i \in 1..Len(GapSuite)}
            \ {"test_workspace_sidebar_functionality"})

SuiteOf(which) == IF which = "master" THEN MasterSuite ELSE GapSuite

\* what awaiting a scenario gives: the status of its result, or an exception
ScenarioOutcomes == {"PASSED", "SUCCESS", "FAILED", "PARTIAL", "raise"}

SuiteInit ==
  /\ \E which \in {"master", "gap"} :
       suite = [which |-> which, pc |-> "run", idx |-> 1, invoked |-> <<>>,
                tests |-> <<>>, passed |-> 0, failed |-> 0,
                status |-> "none", error |-> FALSE]
  /\ http = Idle /\ safe = Idle /\ tool = Idle /\ job = Idle
  /\ poll = Idle /\ tier = Idle
  /\ ide = Idle
  /\ rebuild = Idle
  /\ stress = Idle
  /\ perf = Idle
  /\ cleanup = Idle
  /\ ds = Idle
  /\ uat = Idle
  /\ boot = Idle
  /\ proj = Idle
  /\ prog = Idle
  /\ hw = Idle
  /\ sync = Idle
  /\ adv = Idle
  /\ wsops = Idle
  /\ life = Idle

\* one iteration of `for idx, test_config in enumerate(test_suite, 1)`
SuiteRunMasterTest ==
  /\ suite.which = "master" /\ suite.pc = "run"
  /\ suite.idx <= Len(MasterSuite)
  /\ \E out \in ScenarioOutcomes :
       suite' = [suite EXCEPT
                   !.idx = @ + 1,
                   !.invoked = Append(@, MasterSuite[suite.idx]),
                   !.tests = Append(@, suite.idx),
                   !.passed = IF out \in {"PASSED", "SUCCESS"} THEN @ + 1 ELSE @,
                   !.failed = IF out \in {"FAILED", "raise"} THEN @ + 1 ELSE @]
  /\ UNCHANGED <<http, safe, tool, job, poll, tier, ide, rebuild, stress, perf, cleanup, ds, uat, boot, proj, prog, hw, sync, adv, wsops, life>>

\* the summary after the loop
SuiteMasterSummary ==
  /\ suite.which = "master" /\ suite.pc = "run"
  /\ suite.idx > Len(MasterSuite)
  /\ suite' = [suite EXCEPT
                 !.pc = "done",
                 !.status = IF suite.failed = 0 THEN "PASSED" ELSE "FAILED"]
  /\ UNCHANGED <<http, safe, tool, job, poll, tier, ide, rebuild, stress, perf, cleanup, ds, uat, boot, proj, prog, hw, sync, adv, wsops, life>>

\* "overall_status" of the gap-analysis summary
GapOverallStatus(passed, failed) ==
  IF failed = 0 THEN "PASSED" ELSE IF passed > 0 THEN "PARTIAL" ELSE "FAILED"

\* one `result = await test_...(...)` with its suite_results["tests"][key] =
\* result; after the fourteenth, the summary
SuiteRunGapTest ==
  /\ suite.which = "gap" /\ suite.pc = "run"
  /\ suite.idx <= Len(GapSuite)
  /\ IF GapSuite[suite.idx] \notin DefinedFunctions
     THEN \* NameError, caught by the suite's `except Exception`
          suite' = [suite EXCEPT !.pc = "done", !.status = "FAILED",
                                 !.error = TRUE]
     ELSE \E out \in ScenarioOutcomes :
            LET passed == IF out = "PASSED" THEN suite.passed + 1 ELSE suite.passed
                failed == IF out = "PASSED" THEN suite.failed ELSE suite.failed + 1
                last == suite.idx = Len(GapSuite)
            IN suite' = IF out = "raise"
                        THEN [suite EXCEPT
                                !.pc = "done", !.status = "FAILED", !.error = TRUE,
                                !.invoked = Append(@, GapSuite[suite.idx])]
                        ELSE [suite EXCEPT
                                !.idx = @ + 1,
                                !.invoked = Append(@, GapSuite[suite.idx]),
                                !.tests = Append(@, suite.idx),
                                !.passed = passed,
                                !.failed = failed,
                                !.pc = IF last THEN "done" ELSE @,
                                !.status = IF last
                                           THEN GapOverallStatus(passed, failed)
                                           ELSE @]
  /\ UNCHANGED <<http, safe, tool, job, poll, tier, ide, rebuild, stress, perf, cleanup, ds, uat, boot, proj, prog, hw, sync, adv, wsops, life>>

SuiteNext ==
  \/ SuiteRunMasterTest \/ SuiteMasterSummary
  \/ SuiteRunGapTest

SpecSuite == SuiteInit /\ [][SuiteNext]_vars

\* C6: when a suite has returned, every configured scenario has been invoked
\* exactly once, in the order of the list, and has its entry in the results,
\* whatever the earlier scenarios returned or raised.
C6_EveryScenarioOnceInOrder ==
  suite.pc = "done" =>
    /\ suite.invoked = SuiteOf(suite.which)
    /\ suite.tests = [i \in 1..Len(SuiteOf(suite.which)) |-> i]

(***************************************************************************)
(* The poll loops: workspace reaching Running (IDE suite, hardware tiers,  *)
(* file sync) and environment revision build reaching a final state        *)
(***************************************************************************)
\* IDE suite and hardware tiers: timeout_seconds, check_interval
timeout_seconds == 300
check_interval == 10
\* hardware tiers: wall-clock allowance per tier, measured from tier_start_time
max_time_per_tier == 300
\* file sync and environment rebuild: max_wait_time, and the time.sleep(10)
sync_max_wait_time == 180
env_max_wait_time == 300
poll_sleep == 10

\* seconds a status request may take, and seconds between tier_start_time
\* and the start of the loop
MaxRequestSeconds == 3
MaxSetupSeconds == 25
RequestSeconds == {0, MaxRequestSeconds}
SetupSeconds == {0, MaxSetupSeconds}

NotYet == 0 - 1

\* what _make_api_request returns for the workspace status URL
WorkspaceResponses ==
  [error : BOOLEAN, shape : {"dict", "null_session", "list"},
   isRunning : BOOLEAN, raw : {"Running", "Pending"},
   status : {"Running", "Pending", "Failed", "Stopped", "Error"}]

\* what requests.get does for the revision status URL
EnvResponses ==
  [kind : {"response", "raise", "hang"}, code : {200, 404, 500},
   json : BOOLEAN, status : {"Succeeded", "Failed", "Error", "Building"}]

\* IDE suite / hardware tiers: the body of `if "error" not in status_response`
SessionCheck(r) ==
  IF r.error THEN "false"
  ELSE IF r.shape # "dict" THEN "raise"
  ELSE IF r.isRunning \/ r.raw = "Running" THEN "true" ELSE "false"

\* file sync: the body of `if "error" not in workspace_info`
SyncCheck(r) ==
  IF r.error THEN "false"
  ELSE IF r.shape = "list" THEN "raise"
  ELSE IF r.status = "Running" THEN "true"
  ELSE IF r.status \in {"Failed", "Stopped", "Error"} THEN "terminal"
  ELSE "false"

\* environment rebuild: requests.get, status_code == 200, .json(), status
EnvCheck(r) ==
  IF r.kind = "hang" THEN "hang"
  ELSE IF r.kind = "raise" THEN "raise"
  ELSE IF r.code # 200 THEN "false"
  ELSE IF ~r.json THEN "raise"
  ELSE IF r.status = "Succeeded" THEN "true"
  ELSE IF r.status \in {"Failed", "Error"} THEN "terminal"
  ELSE "false"

\* the condition the loop waits for, as the check reports it
ConditionHolds(loop, kind) ==
  kind = "true" \/ (loop = "env" /\ kind = "terminal")

\* a check has been made: count it and note the first one that found the
\* condition true, by the number of sleeps made before it
Checked(p, kind, d) ==
  [p EXCEPT !.checks = @ + 1, !.now = @ + d, !.last = kind,
            !.firstTrue = IF @ = NotYet /\ ConditionHolds(p.loop, kind)
                          THEN p.sleeps ELSE @]

\* leaving the loop
Exit(p, exit, status) == [p EXCEPT !.pc = "done", !.exit = exit, !.status = status]

Slept(p, seconds) == [p EXCEPT !.sleeps = @ + 1, !.now = @ + seconds]

\* an iteration that goes on polling after the condition was found true
SessionLoopStepNoBreak(p, r, d, okStatus) ==
  LET c == Checked(p, SessionCheck(r), d)
      n == [Slept(c, check_interval) EXCEPT !.elapsed = @ + check_interval]
  IN IF n.elapsed < timeout_seconds THEN n ELSE Exit(n, "timeout", "FAILED")

\* IDE suite / hardware tiers: one iteration of `while elapsed <
\* timeout_seconds`, with the loop test that follows it
SessionLoopStep(p, r, d, okStatus) ==
  LET kind == SessionCheck(r)
      c == Checked(p, kind, d)
      n == [Slept(c, check_interval) EXCEPT !.elapsed = @ + check_interval]
  IN IF kind = "raise" THEN Exit(c, "exception", "FAILED")
     ELSE IF kind = "true"
          THEN Exit([c EXCEPT !.reported = c.elapsed], "success", okStatus)
          ELSE IF n.elapsed < timeout_seconds THEN n
               ELSE Exit(n, "timeout", "FAILED")

\* hardware tiers: the same iteration with the wall-clock test made after
\* the sleep; TIMEOUT is overwritten by the `if not is_running` that follows
TierLoopStep(p, r, d) ==
  LET n == SessionLoopStep(p, r, d, p.status)
  IN IF n.last = "false" /\ p.setup + n.now > max_time_per_tier
     THEN Exit(n, "wallclock", "FAILED")
     ELSE n

\* an iteration that polls on after a Failed, Stopped or Error status
SyncLoopStepNoTerminalBreak(p, r, d) ==
  LET kind == SyncCheck(r)
      c == Checked(p, kind, d)
      n == Slept(c, poll_sleep)
  IN IF kind = "raise" THEN Exit(c, "exception", p.status)
     ELSE IF kind = "true"
          THEN Exit([c EXCEPT !.reported = c.now], "success", "SUCCESS")
          ELSE IF n.now < sync_max_wait_time THEN n
               ELSE Exit(n, "timeout", "TIMEOUT")

\* file sync: one iteration of `while time.time() - start_time <
\* max_wait_time`, the loop test that follows, and `if not workspace_running`
SyncLoopStep(p, r, d) ==
  LET kind == SyncCheck(r)
      c == Checked(p, kind, d)
      n == Slept(c, poll_sleep)
  IN IF kind = "raise" THEN Exit(c, "exception", p.status)
     ELSE IF kind = "true"
          THEN Exit([c EXCEPT !.reported = c.now], "success", "SUCCESS")
          ELSE IF kind = "terminal" THEN Exit(c, "terminal", "TIMEOUT")
               ELSE IF n.now < sync_max_wait_time THEN n
                    ELSE Exit(n, "timeout", "TIMEOUT")

\* environment rebuild: one iteration of `while time.time() -
\* start_poll_time < max_wait_time` and what follows the loop
EnvLoopStep(p, r, d) ==
  LET kind == EnvCheck(r)
      c == Checked(p, kind, d)
      n == Slept(c, poll_sleep)
  IN IF kind = "hang" THEN [p EXCEPT !.pc = "blocked", !.checks = @ + 1,
                                     !.last = kind]
     ELSE IF kind = "raise" THEN Exit(c, "exception", "ERROR")
     ELSE IF kind = "true"
          THEN Exit([c EXCEPT !.reported = c.now], "success", "SUCCESS")
          ELSE IF kind = "terminal" THEN Exit(c, "terminal", "FAILED")
               ELSE IF n.now < env_max_wait_time THEN n
                    ELSE Exit(n, "timeout", "TIMEOUT")

PollInit ==
  /\ \E loop \in {"ide", "tier", "sync", "env"}, setup \in SetupSeconds :
       /\ loop # "tier" => setup = 0
       /\ poll = [loop |-> loop, pc |-> "check", elapsed |-> 0, now |-> 0,
                  setup |-> setup, checks |-> 0, sleeps |-> 0,
                  firstTrue |-> NotYet, last |-> "none", exit |-> "none",
                  reported |-> NotYet,
                  status |-> IF loop = "sync" THEN "RUNNING" ELSE "none"]
  /\ http = Idle /\ safe = Idle /\ tool = Idle /\ job = Idle
  /\ suite = Idle /\ tier = Idle
  /\ ide = Idle
  /\ rebuild = Idle
  /\ stress = Idle
  /\ perf = Idle
  /\ cleanup = Idle
  /\ ds = Idle
  /\ uat = Idle
  /\ boot = Idle
  /\ proj = Idle
  /\ prog = Idle
  /\ hw = Idle
  /\ sync = Idle
  /\ adv = Idle
  /\ wsops = Idle
  /\ life = Idle

PollIde ==
  /\ poll.loop = "ide" /\ poll.pc = "check"
  /\ \E r \in WorkspaceResponses, d \in RequestSeconds :
       poll' = SessionLoopStep(poll, r, d, "SUCCESS")
  /\ UNCHANGED <<http, safe, tool, job, suite, tier, ide, rebuild, stress, perf, cleanup, ds, uat, boot, proj, prog, hw, sync, adv, wsops, life>>

PollTier ==
  /\ poll.loop = "tier" /\ poll.pc = "check"
  /\ \E r \in WorkspaceResponses, d \in RequestSeconds :
       poll' = TierLoopStep(poll, r, d)
  /\ UNCHANGED <<http, safe, tool, job, suite, tier, ide, rebuild, stress, perf, cleanup, ds, uat, boot, proj, prog, hw, sync, adv, wsops, life>>

PollSync ==
  /\ poll.loop = "sync" /\ poll.pc = "check"
  /\ \E r \in WorkspaceResponses, d \in RequestSeconds :
       poll' = SyncLoopStep(poll, r, d)
  /\ UNCHANGED <<http, safe, tool, job, suite, tier, ide, rebuild, stress, perf, cleanup, ds, uat, boot, proj, prog, hw, sync, adv, wsops, life>>

PollEnv ==
  /\ poll.loop = "env" /\ poll.pc = "check"
  /\ \E r \in EnvResponses, d \in RequestSeconds :
       poll' = EnvLoopStep(poll, r, d)
  /\ UNCHANGED <<http, safe, tool, job, suite, tier, ide, rebuild, stress, perf, cleanup, ds, uat, boot, proj, prog, hw, sync, adv, wsops, life>>

PollNext == PollIde \/ PollTier \/ PollSync \/ PollEnv

SpecPoll == PollInit /\ [][PollNext]_vars

\* C7: in the loops that count their sleeps (IDE suite, hardware tiers), if
\* the condition is first found true by the check made after exactly k
\* sleeps, then k * check_interval < timeout_seconds, the loop has left
\* through its success branch, it made exactly k + 1 checks, and the elapsed
\* time it reports is k * check_interval.
C7_SuccessAfterKIntervals ==
  (poll.loop \in {"ide", "tier"} /\ poll.firstTrue # NotYet) =>
    /\ poll.firstTrue * check_interval < timeout_seconds
    /\ poll.pc = "done"
    /\ poll.exit = "success"
    /\ poll.checks = poll.firstTrue + 1
    /\ poll.sleeps = poll.firstTrue
    /\ poll.reported = poll.firstTrue * check_interval

\* the hardware-tier loop found the workspace Running at the check made
\* after three sleeps and reported 30 seconds
C7_Witness ==
  /\ poll.loop = "tier"
  /\ poll.firstTrue = 3
  /\ poll.exit = "success"
  /\ poll.reported = 30

\* C8 as stated: in the IDE and environment-rebuild loops, if no check found
\* the condition true, the loop is never stuck, and once it has stopped it
\* has made at most timeout / interval checks and left by the timeout branch.
C8_BoundedThenTimeout ==
  (poll.loop \in {"ide", "env"} /\ poll.firstTrue = NotYet) =>
    /\ poll.pc # "blocked"
    /\ poll.checks * check_interval <= timeout_seconds
    /\ poll.pc = "done" => poll.exit = "timeout"

\* C9 as stated: a loop that has ended left because the condition was
\* satisfied or because of the timeout (of the loop or, for hardware tiers,
\* of the tier), and in no other way.
C9_ExactlyTwoExits ==
  poll.pc = "done" =>
    \/ poll.exit \in {"success", "timeout", "wallclock"}
    \/ poll.loop = "env" /\ poll.exit = "terminal"

\* C9 (amended): a loop that has ended left in one of five ways: the last
\* check found the condition true (success); the last check did not and the
\* loop's timeout was reached (timeout); in the hardware-tier loop, more
\* than max_time_per_tier seconds had passed since tier_start_time
\* (wallclock); in the file-sync and environment loops, the last check
\* reported a Failed, Stopped or Error status (terminal); or the last check
\* raised (exception).  A check that finds the condition true, reports such
\* a status or raises ends the loop at once, and only the environment loop
\* can be left waiting for a request that does not return.
C9_ExitsOfTheLoops ==
  /\ poll.pc = "done" =>
       /\ poll.exit \in {"success", "timeout", "wallclock", "terminal", "exception"}
       /\ poll.exit = "success" =>
            poll.last = "true" /\ poll.firstTrue = poll.sleeps
       /\ poll.exit = "timeout" =>
            /\ poll.last = "false" /\ poll.firstTrue = NotYet
            /\ poll.loop \in {"ide", "tier"} => poll.elapsed >= timeout_seconds
            /\ poll.loop = "sync" => poll.now >= sync_max_wait_time
            /\ poll.loop = "env" => poll.now >= env_max_wait_time
       /\ poll.exit = "wallclock" =>
            /\ poll.loop = "tier" /\ poll.last = "false"
            /\ poll.setup + poll.now > max_time_per_tier
       /\ poll.exit = "terminal" =>
            poll.loop \in {"sync", "env"} /\ poll.last = "terminal"
       /\ poll.exit = "exception" => poll.last = "raise"
  /\ poll.pc = "check" => poll.last \in {"none", "false"} /\ poll.exit = "none"
  /\ poll.pc = "blocked" => poll.loop = "env" /\ poll.last = "hang"

\* the file-sync loop ended at its third check because the workspace
\* reported a Failed, Stopped or Error status, and recorded TIMEOUT
C9_Witness ==
  /\ poll.loop = "sync"
  /\ poll.pc = "done"
  /\ poll.exit = "terminal"
  /\ poll.checks = 3
  /\ poll.status = "TIMEOUT"

(***************************************************************************)
(* _get_hardware_tier_data and _validate_hardware_tier                     *)
(***************************************************************************)
MaxTiers == 2

StrEmpty == <<>>
StrSmall == <<"s", "m", "a", "l", "l">>
StrMedium == <<"m", "e", "d", "i", "u", "m">>
StrLarge == <<"l", "a", "r", "g", "e">>
StrSmallK8s == <<"s", "m", "a", "l", "l", "-", "k", "8", "s">>
StrMediumK8s == <<"m", "e", "d", "i", "u", "m", "-", "k", "8", "s">>
StrLargeK8s == <<"l", "a", "r", "g", "e", "-", "k", "8", "s">>
StrGpuK8s == <<"g", "p", "u", "-", "k", "8", "s">>

\* a tier of the platform's listing: id, name, flags.isModelApiTier,
\* flags.isDefault
Tiers ==
  [id : {StrSmallK8s}, name : {<<"S", "m", "a", "l", "l">>},
   isModelApiTier : BOOLEAN, isDefault : BOOLEAN]
  \cup [id : {StrLargeK8s}, name : {<<"L", "a", "r", "g", "e">>},
        isModelApiTier : BOOLEAN, isDefault : BOOLEAN]
  \cup [id : {StrGpuK8s}, name : {<<"G", "P", "U">>},
        isModelApiTier : BOOLEAN, isDefault : BOOLEAN]

TierLists == UNION {[1..n -> Tiers] : n \in 0..MaxTiers}

\* the tier_name arguments tried
TierNames ==
  {StrEmpty, StrSmall, StrMedium, StrLarge, StrSmallK8s,
   <<"S", "m", "a", "l", "l">>, <<"S", "M", "A", "L", "L", "-", "K", "8", "S">>, <<"g", "p", "u">>,
   <<"G", "P", "U">>, <<"x", "s", "m", "a", "l", "l">>, <<"x", "l">>}

\* Python's None, returned when a function ends without a return statement
None == [isNone |-> TRUE, tiers |-> <<>>]

\* a list returned by _get_hardware_tier_data
TierList(tiers) == [isNone |-> FALSE, tiers |-> tiers]

\* _get_hardware_tier_data, from whether each of its two requests succeeded
\* and the tiers the platform lists
GetHardwareTierData(primaryOk, adminOk, listing) ==
  IF primaryOk /\ listing # <<>> THEN TierList(listing)
  ELSE IF adminOk THEN TierList(listing)
  ELSE None

\* for tier in tier_data: if tier.get('id') == tier_name
RECURSIVE ExactIdMatch(_, _, _)
ExactIdMatch(tier_data, tier_name, i) ==
  IF i > Len(tier_data) THEN 0
  ELSE IF tier_data[i].id = tier_name THEN i
  ELSE ExactIdMatch(tier_data, tier_name, i + 1)

\* for tier in tier_data: if tier.get('name') == tier_name and not Model API
RECURSIVE ExactNameMatch(_, _, _)
ExactNameMatch(tier_data, tier_name, i) ==
  IF i > Len(tier_data) THEN 0
  ELSE IF tier_data[i].name = tier_name /\ ~tier_data[i].isModelApiTier THEN i
  ELSE ExactNameMatch(tier_data, tier_name, i + 1)

\* the case-insensitive loop
RECURSIVE CaseInsensitiveMatch(_, _, _)
CaseInsensitiveMatch(tier_data, tier_lower, i) ==
  IF i > Len(tier_data) THEN 0
  ELSE IF /\ ~tier_data[i].isModelApiTier
          /\ \/ Lower(tier_data[i].name) = tier_lower
             \/ Lower(tier_data[i].id) = tier_lower
       THEN i
  ELSE CaseInsensitiveMatch(tier_data, tier_lower, i + 1)

\* the partial-match loop that also looks at Model API tiers
RECURSIVE PartialMatchAnyTier(_, _, _)
PartialMatchAnyTier(tier_data, tier_lower, i) ==
  IF i > Len(tier_data) THEN 0
  ELSE IF \/ Contains(tier_lower, Lower(tier_data[i].id))
          \/ Contains(tier_lower, Lower(tier_data[i].name))
          \/ Contains(Lower(tier_data[i].id), tier_lower)
          \/ Contains(Lower(tier_data[i].name), tier_lower)
       THEN i
  ELSE PartialMatchAnyTier(tier_data, tier_lower, i + 1)

\* the partial-match loop
RECURSIVE PartialMatch(_, _, _)
PartialMatch(tier_data, tier_lower, i) ==
  IF i > Len(tier_data) THEN 0
  ELSE IF /\ ~tier_data[i].isModelApiTier
          /\ \/ Contains(tier_lower, Lower(tier_data[i].id))
             \/ Contains(tier_lower, Lower(tier_data[i].name))
             \/ Contains(Lower(tier_data[i].id), tier_lower)
             \/ Contains(Lower(tier_data[i].name), tier_lower)
       THEN i
  ELSE PartialMatch(tier_data, tier_lower, i + 1)

\* fallback_mapping
InFallbackMapping(s) == s \in {StrSmall, StrMedium, StrLarge}
\* a fallback table whose entries are shifted by one
FallbackMappingShifted(s) ==
  CASE s = StrSmall -> StrMediumK8s
    [] s = StrMedium -> StrLargeK8s
    [] s = StrLarge -> StrSmallK8s

FallbackMapping(s) ==
  CASE s = StrSmall -> StrSmallK8s
    [] s = StrMedium -> StrMediumK8s
    [] s = StrLarge -> StrLargeK8s

\* next((t for t in tiers if isDefault), otherwise)
RECURSIVE DefaultMatch(_, _)
DefaultMatch(tiers, i) ==
  IF i > Len(tiers) THEN 0
  ELSE IF tiers[i].isDefault THEN i
  ELSE DefaultMatch(tiers, i + 1)

\* regular_tiers that keeps the Model API tiers
RegularTiersUnfiltered(tier_data) == tier_data

\* regular_tiers = [t for t in tier_data if not isModelApiTier]
RegularTiers(tier_data) == SelectSeq(tier_data, LAMBDA t : ~t.isModelApiTier)

Returned(id) == [raised |-> FALSE, id |-> id]
Raised == [raised |-> TRUE, id |-> StrEmpty]

\* _validate_hardware_tier, given what _get_hardware_tier_data returned
ValidateHardwareTier(tier_name, fetched) ==
  LET tier_data == fetched.tiers IN
  IF fetched.isNone THEN Raised
  ELSE IF tier_data = <<>> THEN Returned(StrSmallK8s)
  ELSE IF tier_name = StrEmpty
  THEN LET regular_tiers == RegularTiers(tier_data)
           d == DefaultMatch(regular_tiers, 1)
       IN IF d # 0 THEN Returned(regular_tiers[d].id)
          ELSE IF regular_tiers # <<>> THEN Returned(regular_tiers[1].id)
          ELSE Returned(tier_data[1].id)
  ELSE LET tier_lower == Lower(tier_name)
           m1 == ExactIdMatch(tier_data, tier_name, 1)
           m2 == ExactNameMatch(tier_data, tier_name, 1)
           m3 == CaseInsensitiveMatch(tier_data, tier_lower, 1)
           m4 == PartialMatch(tier_data, tier_lower, 1)
           d == DefaultMatch(tier_data, 1)
       IN IF m1 # 0 THEN Returned(tier_data[m1].id)
          ELSE IF m2 # 0 THEN Returned(tier_data[m2].id)
          ELSE IF m3 # 0 THEN Returned(tier_data[m3].id)
          ELSE IF m4 # 0 THEN Returned(tier_data[m4].id)
          ELSE IF /\ InFallbackMapping(tier_lower)
                  /\ ExactIdMatch(tier_data, FallbackMapping(tier_lower), 1) # 0
               THEN Returned(FallbackMapping(tier_lower))
          ELSE IF d # 0 THEN Returned(tier_data[d].id)
          ELSE Returned(tier_data[1].id)

TierInit ==
  /\ \E tier_name \in TierNames, listing \in TierLists,
        primaryOk \in BOOLEAN, adminOk \in BOOLEAN :
       tier = [pc |-> "start", tier_name |-> tier_name, listing |-> listing,
               primaryOk |-> primaryOk, adminOk |-> adminOk,
               tier_data |-> None, result |-> Raised]
  /\ http = Idle /\ safe = Idle /\ tool = Idle /\ job = Idle
  /\ suite = Idle /\ poll = Idle
  /\ ide = Idle
  /\ rebuild = Idle
  /\ stress = Idle
  /\ perf = Idle
  /\ cleanup = Idle
  /\ ds = Idle
  /\ uat = Idle
  /\ boot = Idle
  /\ proj = Idle
  /\ prog = Idle
  /\ hw = Idle
  /\ sync = Idle
  /\ adv = Idle
  /\ wsops = Idle
  /\ life = Idle

\* a call of _validate_hardware_tier(tier_name)
TierValidate ==
  /\ tier.pc = "start"
  /\ LET tier_data == GetHardwareTierData(tier.primaryOk, tier.adminOk, tier.listing)
     IN tier' = [tier EXCEPT !.pc = "done", !.tier_data = tier_data,
                             !.result = ValidateHardwareTier(tier.tier_name, tier_data)]
  /\ UNCHANGED <<http, safe, tool, job, suite, poll, ide, rebuild, stress, perf, cleanup, ds, uat, boot, proj, prog, hw, sync, adv, wsops, life>>

TierNext == TierValidate

SpecTier == TierInit /\ [][TierNext]_vars

\* a resolution of a non-empty name against a non-empty tier list is over
TierResolved ==
  /\ tier.pc = "done"
  /\ ~tier.tier_data.isNone
  /\ tier.tier_data.tiers # <<>>
  /\ tier.tier_name # StrEmpty

\* C10 as stated: the result is the identifier chosen by the first rule that
\* applies among (1) exact identifier, (2) exact display name excluding Model
\* API tiers, (3) case-insensitive name or identifier, (4) substring in either
\* direction, (5) the small/medium/large table, (6) the default tier, (7) the
\* first tier; so a name equal to a listed identifier returns it and a name
\* equal to a listed display name returns that tier's identifier.
C10_AsStated ==
  TierResolved =>
    LET ts == tier.tier_data.tiers
        n == tier.tier_name
        l == Lower(n)
        First(P(_)) == CHOOSE i \in 1..Len(ts) : P(i) /\ \A j \in 1..(i - 1) : ~P(j)
        Some(P(_)) == \E i \in 1..Len(ts) : P(i)
        R1(i) == ts[i].id = n
        R2(i) == ts[i].name = n /\ ~ts[i].isModelApiTier
        R3(i) == Lower(ts[i].name) = l \/ Lower(ts[i].id) = l
        R4(i) == \/ Contains(l, Lower(ts[i].id)) \/ Contains(l, Lower(ts[i].name))
                 \/ Contains(Lower(ts[i].id), l) \/ Contains(Lower(ts[i].name), l)
        R6(i) == ts[i].isDefault
        claimed == IF Some(R1) THEN ts[First(R1)].id
                   ELSE IF Some(R2) THEN ts[First(R2)].id
                   ELSE IF Some(R3) THEN ts[First(R3)].id
                   ELSE IF Some(R4) THEN ts[First(R4)].id
                   ELSE IF InFallbackMapping(l) THEN FallbackMapping(l)
                   ELSE IF Some(R6) THEN ts[First(R6)].id
                   ELSE ts[1].id
    IN /\ ~tier.result.raised
       /\ tier.result.id = claimed
       /\ (\E i \in 1..Len(ts) : ts[i].id = n) => tier.result.id = n
       /\ (\E i \in 1..Len(ts) : ts[i].name = n) =>
            \E i \in 1..Len(ts) : ts[i].name = n /\ tier.result.id = ts[i].id

\* C10 (amended): for a non-empty name and a non-empty tier list the result
\* is the identifier chosen by the first rule that applies among (1) exact
\* identifier, (2) exact display name excluding Model API tiers, (3)
\* case-insensitive name or identifier excluding Model API tiers, (4)
\* substring in either direction excluding Model API tiers, (5) the
\* small/medium/large table entry if a tier with that identifier is listed,
\* (6) the first tier flagged default, (7) the first tier; so a name equal to
\* a listed identifier returns it, and a name equal to the display name of a
\* tier that is not a Model API tier returns the identifier of the first such
\* tier unless the name is itself a listed identifier.  With an empty list
\* the result is small-k8s, with an empty name the default among the tiers
\* that are not Model API tiers, and with no tier data at all (both listing
\* requests failed) the resolution raises.
C10_FirstApplicableRule ==
  tier.pc = "done" =>
    LET ts == tier.tier_data.tiers
        n == tier.tier_name
        l == Lower(n)
        First(P(_)) == CHOOSE i \in 1..Len(ts) : P(i) /\ \A j \in 1..(i - 1) : ~P(j)
        Some(P(_)) == \E i \in 1..Len(ts) : P(i)
        Regular(i) == ~ts[i].isModelApiTier
        R1(i) == ts[i].id = n
        R2(i) == ts[i].name = n /\ Regular(i)
        R3(i) == Regular(i) /\ (Lower(ts[i].name) = l \/ Lower(ts[i].id) = l)
        R4(i) == /\ Regular(i)
                 /\ \/ Contains(l, Lower(ts[i].id)) \/ Contains(l, Lower(ts[i].name))
                    \/ Contains(Lower(ts[i].id), l) \/ Contains(Lower(ts[i].name), l)
        R5(i) == InFallbackMapping(l) /\ ts[i].id = FallbackMapping(l)
        R6(i) == ts[i].isDefault
        RegularDefault(i) == Regular(i) /\ ts[i].isDefault
        chosen == IF Some(R1) THEN First(R1)
                  ELSE IF Some(R2) THEN First(R2)
                  ELSE IF Some(R3) THEN First(R3)
                  ELSE IF Some(R4) THEN First(R4)
                  ELSE IF Some(R5) THEN First(R5)
                  ELSE IF Some(R6) THEN First(R6)
                  ELSE 1
        default == IF Some(RegularDefault) THEN First(RegularDefault)
                   ELSE IF Some(Regular) THEN First(Regular)
                   ELSE 1
    IN IF tier.tier_data.isNone THEN tier.result.raised
       ELSE /\ ~tier.result.raised
            /\ ts = <<>> => tier.result.id = StrSmallK8s
            /\ (ts # <<>> /\ n = StrEmpty) => tier.result.id = ts[default].id
            /\ (ts # <<>> /\ n # StrEmpty) =>
                 /\ tier.result.id = ts[chosen].id
                 /\ Some(R1) => tier.result.id = n
                 /\ (Some(R2) /\ ~Some(R1)) => tier.result.id = ts[First(R2)].id

\* "small" resolved against a listing whose small-k8s tier is a Model API
\* tier, behind a large-k8s tier: rules (1) to (4) pass it over and the
\* table of rule (5) returns small-k8s
C10_Witness ==
  /\ TierResolved
  /\ tier.tier_name = StrSmall
  /\ Len(tier.tier_data.tiers) = 2
  /\ tier.tier_data.tiers[1].id = StrLargeK8s
  /\ ~tier.tier_data.tiers[1].isModelApiTier
  /\ tier.tier_data.tiers[2].id = StrSmallK8s
  /\ tier.tier_data.tiers[2].isModelApiTier
  /\ tier.result = Returned(StrSmallK8s)

\* a resolution of the empty name against a non-empty tier list is over
TierDefaulted ==
  /\ tier.pc = "done"
  /\ ~tier.tier_data.isNone
  /\ tier.tier_data.tiers # <<>>
  /\ tier.tier_name = StrEmpty

\* C11 as stated: with an empty tier name the result is a tier flagged as
\* default whenever one is listed, and it is never a tier flagged as a Model
\* API tier.
C11_AsStated ==
  TierDefaulted =>
    LET ts == tier.tier_data.tiers
    IN /\ ~tier.result.raised
       /\ (\E i \in 1..Len(ts) : ts[i].isDefault) =>
            \E i \in 1..Len(ts) : ts[i].isDefault /\ ts[i].id = tier.result.id
       /\ \E i \in 1..Len(ts) : ~ts[i].isModelApiTier /\ ts[i].id = tier.result.id

\* C11 (amended): with an empty tier name and at least one tier listed, the
\* result is the first tier that is flagged default and is not a Model API
\* tier; if there is none, the first tier that is not a Model API tier; and
\* if every listed tier is a Model API tier, the first tier of the list, so
\* that the result is a Model API tier exactly when all listed tiers are.
\* With no tier data at all the resolution raises.
C11_DefaultAmongRegularTiers ==
  (tier.pc = "done" /\ tier.tier_name = StrEmpty) =>
    LET ts == tier.tier_data.tiers
        I == 1..Len(ts)
        Regular(i) == ~ts[i].isModelApiTier
        RegularDefault(i) == Regular(i) /\ ts[i].isDefault
        Least(S) == CHOOSE i \in S : \A j \in S : i <= j
        regularDefaults == {i \in I : RegularDefault(i)}
        regulars == {i \in I : Regular(i)}
    IN IF tier.tier_data.isNone THEN tier.result.raised
       ELSE IF ts = <<>> THEN tier.result = Returned(StrSmallK8s)
       ELSE IF regularDefaults # {}
            THEN tier.result = Returned(ts[Least(regularDefaults)].id)
       ELSE IF regulars # {}
            THEN tier.result = Returned(ts[Least(regulars)].id)
       ELSE /\ tier.result = Returned(ts[1].id)
            /\ ts[1].isModelApiTier

\* the empty name resolved against a listing whose default tier is a Model
\* API tier, ahead of a tier that is neither: the second tier is returned
C11_Witness ==
  /\ TierDefaulted
  /\ Len(tier.tier_data.tiers) = 2
  /\ tier.tier_data.tiers[1].id = StrGpuK8s
  /\ tier.tier_data.tiers[1].isModelApiTier
  /\ tier.tier_data.tiers[1].isDefault
  /\ tier.tier_data.tiers[2].id = StrSmallK8s
  /\ ~tier.tier_data.tiers[2].isModelApiTier
  /\ ~tier.tier_data.tiers[2].isDefault
  /\ tier.result = Returned(StrSmallK8s)

\* C12 as stated: whenever the platform reports no tiers, also when both
\* tier-listing requests fail, the resolution returns small-k8s for every
\* tier name.
C12_NoTiersSmallK8s ==
  (tier.pc = "done"
     /\ (tier.listing = <<>> \/ (~tier.primaryOk /\ ~tier.adminOk))) =>
    tier.result = Returned(StrSmallK8s)

\* a resolution in which the lower-cased name is a key of the fallback table
\* and none of the rules (1) to (4) matched a tier
TierFallbackCase ==
  /\ TierResolved
  /\ LET ts == tier.tier_data.tiers
         n == tier.tier_name
         l == Lower(n)
     IN /\ l \in {StrSmall, StrMedium, StrLarge}
        /\ \A i \in 1..Len(ts) :
             /\ ts[i].id # n
             /\ ~ts[i].isModelApiTier =>
                  /\ ts[i].name # n
                  /\ Lower(ts[i].name) # l /\ Lower(ts[i].id) # l
                  /\ ~Contains(l, Lower(ts[i].id)) /\ ~Contains(l, Lower(ts[i].name))
                  /\ ~Contains(Lower(ts[i].id), l) /\ ~Contains(Lower(ts[i].name), l)

\* the entry of the fallback table for a lower-cased name
TableEntry ==
  LET l == Lower(tier.tier_name)
  IN IF l = StrSmall THEN StrSmallK8s
     ELSE IF l = StrMedium THEN StrMediumK8s
     ELSE StrLargeK8s

\* C13 as stated: when the requested name is small, medium or large and rules
\* (1) to (4) match no tier, the result is the table entry small-k8s,
\* medium-k8s or large-k8s, whatever default tier or first tier is listed.
C13_AsStated ==
  TierFallbackCase => tier.result = Returned(TableEntry)

\* C13 (amended): when the lower-cased name is small, medium or large and
\* rules (1) to (4) match no tier, the result is the table entry if a tier
\* with that identifier is listed, and this is decided before the default
\* tier and the first tier are considered; if no tier with that identifier
\* is listed the table is passed over and the result is the first tier
\* flagged default, or else the first tier.
C13_TableEntryIfListed ==
  TierFallbackCase =>
    LET ts == tier.tier_data.tiers
        I == 1..Len(ts)
        defaults == {i \in I : ts[i].isDefault}
        first == IF defaults = {} THEN 1
                 ELSE CHOOSE i \in defaults : \A j \in defaults : i <= j
    IN IF \E i \in I : ts[i].id = TableEntry
       THEN tier.result = Returned(TableEntry)
       ELSE tier.result = Returned(ts[first].id)

\* "large" resolved against a listing whose first tier is the default
\* small-k8s and whose second is large-k8s flagged as a Model API tier: the
\* table entry large-k8s is returned, not the default tier
C13_Witness ==
  /\ TierFallbackCase
  /\ tier.tier_name = StrLarge
  /\ Len(tier.tier_data.tiers) = 2
  /\ tier.tier_data.tiers[1].id = StrSmallK8s
  /\ tier.tier_data.tiers[1].isDefault
  /\ tier.tier_data.tiers[2].id = StrLargeK8s
  /\ tier.tier_data.tiers[2].isModelApiTier
  /\ tier.result = Returned(StrLargeK8s)

\* C14: for any 2xx response the wrapper returns the decoded JSON body
\* unchanged when the body is JSON, and a mapping with exactly the keys
\* text_response and status_code when the body is not JSON.
C14_JsonUnchangedElseTextRecord ==
  (http.pc = "done" /\ HttpCompleted2xx) =>
    /\ ~http.ret.raised
    /\ http.net.json => http.ret.value = http.net.body
    /\ ~http.net.json =>
         /\ http.ret.value.type = "dict"
         /\ http.ret.value.keys = {"text_response", "status_code"}

\* a DELETE answered 204 with a body that is not JSON came back as the text
\* record
C14_Witness ==
  /\ http.pc = "done"
  /\ http.method = MethodDELETE
  /\ http.net.kind = "response" /\ http.net.status = 204 /\ ~http.net.json
  /\ http.ret.value.keys = {"text_response", "status_code"}

IdeNames == <<"jupyter", "rstudio", "vscode">>

max_cleanup_attempts == 3

\* what the verification GET of the cleanup can answer: a mapping with
\* "error", a mapping without it, or a JSON null (`"error" in None` raises)
VerifyResponses == {"error", "exists", "null"}

\* the step of the IDE test an event belongs to, by the code's own numbering
StepOf(e) ==
  CASE e = "create" -> 1
    [] e = "start" -> 2
    [] e = "poll" -> 3
    [] e = "stop" -> 4
    [] OTHER -> 5

\* a DELETE request that failed, and one that succeeded
DeleteEvents == {"delete", "delete_ok", "direct_delete", "direct_delete_ok"}

Deleted(ok) == IF ok THEN "delete_ok" ELSE "delete"

DirectDeleted(ok) == IF ok THEN "direct_delete_ok" ELSE "direct_delete"

RECURSIVE CountIn(_, _)
CountIn(log, events) ==
  IF log = <<>> THEN 0
  ELSE (IF Head(log) \in events THEN 1 ELSE 0) + CountIn(Tail(log), events)

\* one pass of `for attempt in range(1, max_cleanup_attempts + 1)`: stop
\* POST, sleep(5), _test_delete_workspace; break on success, else sleep(5)
\* if attempts remain
CleanupAttempt(c, del_ok) ==
  LET tried == [c EXCEPT !.log = @ \o <<"cleanup_stop", "sleep", Deleted(del_ok)>>]
  IN IF del_ok
     THEN [tried EXCEPT !.cleanup_success = TRUE, !.pc = "recorded"]
     ELSE IF c.attempt < max_cleanup_attempts
          THEN [tried EXCEPT !.attempt = @ + 1, !.log = @ \o <<"sleep">>]
          ELSE [tried EXCEPT !.pc = "verify"]

\* `if not cleanup_success:` final verification: GET, then either the
\* workspace counts as deleted or a direct DELETE is sent as last resort
CleanupVerify(c, v, direct_ok) ==
  LET asked == [c EXCEPT !.log = @ \o <<"verify">>, !.pc = "recorded"]
  IN CASE v = "error" -> [asked EXCEPT !.cleanup_success = TRUE]
       [] v = "exists" -> [asked EXCEPT !.log = @ \o <<DirectDeleted(direct_ok)>>,
                                        !.cleanup_success = direct_ok]
       [] OTHER -> asked

\* the per-IDE fields at the top of the `for ide_config` body
FreshIde(s, i) ==
  [s EXCEPT !.pc = "create", !.i = i, !.ide_status = "TESTING",
            !.ide_error = FALSE, !.workspace_id = FALSE, !.elapsed = 0,
            !.is_running = FALSE, !.attempt = 1, !.cleanup_success = FALSE,
            !.log = <<>>]

\* test_results["ide_tests"][ide_name] = ide_result
Recorded(s) == [s EXCEPT !.pc = "recorded", !.ide_tests = Append(@, s.ide_status)]

\* ide_result as the failure branches and the per-IDE handler leave it
IdeFailed(s) == [s EXCEPT !.ide_status = "FAILED", !.ide_error = TRUE]

IdeInit ==
  /\ ide = [pc |-> "preamble", i |-> 1, status |-> "RUNNING", error |-> FALSE,
            ide_tests |-> <<>>, ide_status |-> "TESTING", ide_error |-> FALSE,
            workspace_id |-> FALSE, elapsed |-> 0, is_running |-> FALSE,
            attempt |-> 1, cleanup_success |-> FALSE, log |-> <<>>,
            raised_at |-> "nowhere"]
  /\ http = Idle /\ safe = Idle /\ tool = Idle /\ job = Idle
  /\ suite = Idle /\ poll = Idle /\ tier = Idle
  /\ rebuild = Idle /\ stress = Idle /\ perf = Idle /\ cleanup = Idle
  /\ ds = Idle
  /\ uat = Idle
  /\ boot = Idle
  /\ proj = Idle
  /\ prog = Idle
  /\ hw = Idle
  /\ sync = Idle
  /\ adv = Idle
  /\ wsops = Idle
  /\ life = Idle

\* create_project_if_needed, ides_to_test, headers, _get_project_id
IdePreamble ==
  /\ ide.pc = "preamble"
  /\ ide' = FreshIde(ide, 1)
  /\ UNCHANGED <<http, safe, tool, job, suite, poll, tier, rebuild, stress, perf, cleanup, ds, uat, boot, proj, prog, hw, sync, adv, wsops, life>>

\* Step 1: _test_create_workspace; its result may lack an id
IdeCreate ==
  /\ ide.pc = "create"
  /\ \E success \in BOOLEAN, has_id \in BOOLEAN :
       LET made == [ide EXCEPT !.log = @ \o <<"create">>]
       IN ide' = IF ~success THEN Recorded(IdeFailed(made))
                 ELSE [made EXCEPT !.pc = "start_session", !.workspace_id = has_id]
  /\ UNCHANGED <<http, safe, tool, job, suite, poll, tier, rebuild, stress, perf, cleanup, ds, uat, boot, proj, prog, hw, sync, adv, wsops, life>>

\* Step 2: _test_start_workspace_session, which sends nothing without a
\* workspace id; on failure one _test_delete_workspace, gated the same way
IdeStartSession ==
  /\ ide.pc = "start_session"
  /\ \E ok \in BOOLEAN, del_ok \in BOOLEAN :
       ide' = IF ~ide.workspace_id THEN Recorded(IdeFailed(ide))
              ELSE IF ok THEN [ide EXCEPT !.log = @ \o <<"start">>, !.pc = "poll"]
              ELSE Recorded(IdeFailed([ide EXCEPT !.log = @ \o <<"start", Deleted(del_ok)>>]))
  /\ UNCHANGED <<http, safe, tool, job, suite, poll, tier, rebuild, stress, perf, cleanup, ds, uat, boot, proj, prog, hw, sync, adv, wsops, life>>

\* Step 3: one iteration of `while elapsed < timeout_seconds`; a body that
\* raises goes to the per-IDE handler, whose _test_delete_workspace gets a
\* mapping without "success" and so sends nothing
IdePoll ==
  /\ ide.pc = "poll"
  /\ \E r \in WorkspaceResponses :
       LET kind == SessionCheck(r)
           asked == [ide EXCEPT !.log = @ \o <<"poll">>]
           slept == [asked EXCEPT !.elapsed = @ + check_interval]
       IN ide' = CASE kind = "raise" -> Recorded(IdeFailed(asked))
                   [] kind = "true" -> [asked EXCEPT !.is_running = TRUE, !.pc = "after_poll"]
                   [] OTHER -> IF slept.elapsed < timeout_seconds THEN slept
                               ELSE [slept EXCEPT !.pc = "after_poll"]
  /\ UNCHANGED <<http, safe, tool, job, suite, poll, tier, rebuild, stress, perf, cleanup, ds, uat, boot, proj, prog, hw, sync, adv, wsops, life>>

\* the branch after the loop with SUCCESS set whether or not the
\* workspace was seen Running, and no stop request
StopStepUnconditional(s) == [s EXCEPT !.ide_status = "SUCCESS", !.pc = "cleanup"]

\* `if not is_running:` FAILED, else Step 4: _test_stop_workspace_session
\* and status SUCCESS whatever the stop returned
StopStep(s) ==
  IF ~s.is_running THEN [IdeFailed(s) EXCEPT !.pc = "cleanup"]
  ELSE [s EXCEPT !.log = @ \o <<"stop">>, !.ide_status = "SUCCESS",
                 !.pc = "cleanup"]

IdeStop ==
  /\ ide.pc = "after_poll"
  /\ ide' = StopStep(ide)
  /\ UNCHANGED <<http, safe, tool, job, suite, poll, tier, rebuild, stress, perf, cleanup, ds, uat, boot, proj, prog, hw, sync, adv, wsops, life>>

\* Step 5: one cleanup attempt; after it ide_result["deleted"] is recorded
IdeCleanupAttempt ==
  /\ ide.pc = "cleanup"
  /\ \E del_ok \in BOOLEAN :
       LET c == CleanupAttempt(ide, del_ok)
       IN ide' = IF c.pc = "recorded" THEN Recorded(c) ELSE c
  /\ UNCHANGED <<http, safe, tool, job, suite, poll, tier, rebuild, stress, perf, cleanup, ds, uat, boot, proj, prog, hw, sync, adv, wsops, life>>

IdeVerify ==
  /\ ide.pc = "verify"
  /\ \E v \in VerifyResponses, direct_ok \in BOOLEAN :
       ide' = Recorded(CleanupVerify(ide, v, direct_ok))
  /\ UNCHANGED <<http, safe, tool, job, suite, poll, tier, rebuild, stress, perf, cleanup, ds, uat, boot, proj, prog, hw, sync, adv, wsops, life>>

\* the `for` moves on to the next IDE, or the loop ends
IdeNextIde ==
  /\ ide.pc = "recorded"
  /\ ide' = IF ide.i < Len(IdeNames) THEN FreshIde(ide, ide.i + 1)
            ELSE [ide EXCEPT !.pc = "aggregate"]
  /\ UNCHANGED <<http, safe, tool, job, suite, poll, tier, rebuild, stress, perf, cleanup, ds, uat, boot, proj, prog, hw, sync, adv, wsops, life>>

\* status of the suite from the number of IDEs whose status is SUCCESS
IdeOverallStatus(ide_tests) ==
  LET passed_ides == Cardinality({k \in 1..Len(ide_tests) : ide_tests[k] = "SUCCESS"})
  IN IF passed_ides = Len(IdeNames) THEN "SUCCESS"
     ELSE IF passed_ides > 0 THEN "PARTIAL" ELSE "FAILED"

IdeAggregate ==
  /\ ide.pc = "aggregate"
  /\ ide' = [ide EXCEPT !.pc = "done", !.status = IdeOverallStatus(ide.ide_tests)]
  /\ UNCHANGED <<http, safe, tool, job, suite, poll, tier, rebuild, stress, perf, cleanup, ds, uat, boot, proj, prog, hw, sync, adv, wsops, life>>

\* the status the outer handler would set if it used the job scenario's word
IdeOuterHandlerFailed(s) == [s EXCEPT !.pc = "done", !.status = "FAILED", !.error = TRUE]

\* the outer `except Exception as e`
IdeOuterHandler(s) == [s EXCEPT !.pc = "done", !.status = "ERROR", !.error = TRUE]

\* an exception raised by a statement of the outer try that no inner
\* handler covers: the preamble or the summary after the loop
IdeException ==
  /\ ide.pc \in {"preamble", "aggregate"}
  /\ ide' = [IdeOuterHandler(ide) EXCEPT !.raised_at = ide.pc]
  /\ UNCHANGED <<http, safe, tool, job, suite, poll, tier, rebuild, stress, perf, cleanup, ds, uat, boot, proj, prog, hw, sync, adv, wsops, life>>

IdeNext ==
  \/ IdePreamble \/ IdeCreate \/ IdeStartSession \/ IdePoll \/ IdeStop
  \/ IdeCleanupAttempt \/ IdeVerify \/ IdeNextIde \/ IdeAggregate
  \/ IdeException

SpecIde == IdeInit /\ [][IdeNext]_vars


\* ---------------------------------------------------------------------
\* test_post_upgrade_env_rebuild: discovery, details, rebuild, summary
\* ---------------------------------------------------------------------

Passing == {"SUCCESS", "SIMULATED_SUCCESS"}

DiscoveryStatuses == {"SUCCESS", "SIMULATED_SUCCESS", "FAILED", "ERROR"}

\* Step 2 for a discovered environment: 200, another code, or an exception
DetailsStatuses == {"SUCCESS", "FAILED", "ERROR"}

\* Step 3 for a discovered environment: the poll's three results, the
\* 403 and 404 branches, any other code, or an exception
RevisionStatuses == {"SUCCESS", "FAILED", "TIMEOUT", "FORBIDDEN", "NOT_FOUND", "ERROR"}

\* Step 2: the simulated branch sets SIMULATED_SUCCESS and then reads
\* env_details_response, which it never assigned; the handler sets ERROR
DetailsStatus(discovery, st) ==
  IF discovery = "SIMULATED_SUCCESS" THEN "ERROR" ELSE st

\* Step 3: the simulated branch sets SIMULATED_SUCCESS and then formats
\* latest_revision_id, which it never assigned; the handler sets ERROR
RevisionStatus(discovery, st) ==
  IF discovery = "SIMULATED_SUCCESS" THEN "ERROR" ELSE st

\* the overall status the summary computes from the operations
RebuildOverallStatus(operations) ==
  IF \A k \in 1..Len(operations) : operations[k] \in Passing THEN "PASSED"
  ELSE IF \E k \in 1..Len(operations) : operations[k] \in Passing THEN "PARTIAL"
  ELSE "FAILED"

RebuildInit ==
  /\ rebuild = [pc |-> "preamble", status |-> "RUNNING", error |-> FALSE,
                operations |-> <<>>, raised_at |-> "nowhere"]
  /\ http = Idle /\ safe = Idle /\ tool = Idle /\ job = Idle
  /\ suite = Idle /\ poll = Idle /\ tier = Idle
  /\ ide = Idle /\ stress = Idle /\ perf = Idle /\ cleanup = Idle
  /\ ds = Idle
  /\ uat = Idle
  /\ boot = Idle
  /\ proj = Idle
  /\ prog = Idle
  /\ hw = Idle
  /\ sync = Idle
  /\ adv = Idle
  /\ wsops = Idle
  /\ life = Idle

\* create_project_if_needed
RebuildPreamble ==
  /\ rebuild.pc = "preamble"
  /\ rebuild' = [rebuild EXCEPT !.pc = "discover"]
  /\ UNCHANGED <<http, safe, tool, job, suite, poll, tier, ide, stress, perf, cleanup, ds, uat, boot, proj, prog, hw, sync, adv, wsops, life>>

\* Step 1; Steps 2 and 3 run only for a discovered environment
RebuildDiscover ==
  /\ rebuild.pc = "discover"
  /\ \E st \in DiscoveryStatuses :
       rebuild' = [rebuild EXCEPT !.operations = Append(@, st),
                                  !.pc = IF st \in Passing THEN "details" ELSE "summary"]
  /\ UNCHANGED <<http, safe, tool, job, suite, poll, tier, ide, stress, perf, cleanup, ds, uat, boot, proj, prog, hw, sync, adv, wsops, life>>

RebuildDetails ==
  /\ rebuild.pc = "details"
  /\ \E st \in DetailsStatuses :
       rebuild' = [rebuild EXCEPT
                     !.operations = Append(@, DetailsStatus(rebuild.operations[1], st)),
                     !.pc = "revision"]
  /\ UNCHANGED <<http, safe, tool, job, suite, poll, tier, ide, stress, perf, cleanup, ds, uat, boot, proj, prog, hw, sync, adv, wsops, life>>

RebuildRevision ==
  /\ rebuild.pc = "revision"
  /\ \E st \in RevisionStatuses :
       rebuild' = [rebuild EXCEPT
                     !.operations = Append(@, RevisionStatus(rebuild.operations[1], st)),
                     !.pc = "summary"]
  /\ UNCHANGED <<http, safe, tool, job, suite, poll, tier, ide, stress, perf, cleanup, ds, uat, boot, proj, prog, hw, sync, adv, wsops, life>>

\* overall status and uat_summary
RebuildSummary ==
  /\ rebuild.pc = "summary"
  /\ rebuild' = [rebuild EXCEPT !.pc = "done",
                                !.status = RebuildOverallStatus(rebuild.operations)]
  /\ UNCHANGED <<http, safe, tool, job, suite, poll, tier, ide, stress, perf, cleanup, ds, uat, boot, proj, prog, hw, sync, adv, wsops, life>>

\* the outer `except Exception as e`, followed by `return test_results`
RebuildOuterHandler(s) == [s EXCEPT !.pc = "done", !.status = "ERROR", !.error = TRUE]

\* an exception raised by a statement of the outer try that no step's own
\* handler covers: the preamble, the code between the steps, the summary
RebuildException ==
  /\ rebuild.pc \in {"preamble", "discover", "details", "revision", "summary"}
  /\ rebuild' = [RebuildOuterHandler(rebuild) EXCEPT !.raised_at = rebuild.pc]
  /\ UNCHANGED <<http, safe, tool, job, suite, poll, tier, ide, stress, perf, cleanup, ds, uat, boot, proj, prog, hw, sync, adv, wsops, life>>

RebuildNext ==
  \/ RebuildPreamble \/ RebuildDiscover \/ RebuildDetails \/ RebuildRevision
  \/ RebuildSummary \/ RebuildException

SpecRebuild == RebuildInit /\ [][RebuildNext]_vars


\* ---------------------------------------------------------------------
\* the three scenarios whose outer handlers C16 cites, side by side
\* ---------------------------------------------------------------------

ScenarioInit == JobInit \/ IdeInit \/ RebuildInit

ScenarioNext == JobNext \/ IdeNext \/ RebuildNext

SpecScenario == ScenarioInit /\ [][ScenarioNext]_vars

\* the scenario's outer handler has caught an exception
JobCaught == job.pc # "idle" /\ job.error
IdeCaught == ide.pc # "idle" /\ ide.raised_at # "nowhere"
RebuildCaught == rebuild.pc # "idle" /\ rebuild.raised_at # "nowhere"

\* C16 as stated: an unexpected exception in a scenario's own control flow
\* ends the scenario with a returned result whose status is FAILED and
\* which carries an error field
C16_AsStated ==
  /\ JobCaught => job.pc = "done" /\ job.status = "FAILED" /\ job.error
  /\ IdeCaught => ide.pc = "done" /\ ide.status = "FAILED" /\ ide.error
  /\ RebuildCaught =>
       rebuild.pc = "done" /\ rebuild.status = "FAILED" /\ rebuild.error

\* C16 amended: the exception is caught and the result is returned with an
\* error field; its status is FAILED in test_advanced_job_operations and
\* ERROR in the IDE suite and in the environment rebuild
C16_CaughtAndReturnedWithError ==
  /\ JobCaught => job.pc = "done" /\ job.status = "FAILED" /\ job.error
  /\ IdeCaught => ide.pc = "done" /\ ide.status = "ERROR" /\ ide.error
  /\ RebuildCaught =>
       rebuild.pc = "done" /\ rebuild.status = "ERROR" /\ rebuild.error

\* the IDE suite returned from its outer handler after all three IDEs ran
C16_Witness ==
  /\ IdeCaught /\ ide.raised_at = "aggregate" /\ Len(ide.ide_tests) = 3
  /\ ide.status = "ERROR" /\ ide.error


\* ---------------------------------------------------------------------
\* stress_test_api: make_request run by the threads of a pool
\* ---------------------------------------------------------------------

\* the largest concurrent_requests tried and the most passes of the
\* submitting `while` before test_duration is over
MaxConcurrent == 2
MaxBatches == 2

ConcurrentRequests == 1..MaxConcurrent

\* a submitted make_request that no thread has picked up yet
QueuedTask == [pc |-> "queued", tmp |-> 0, failed |-> FALSE]

\* the tasks a thread is executing
RunningTasks(s) ==
  {k \in 1..Len(s.tasks) : s.tasks[k].pc \notin {"queued", "done"}}

\* one step of make_request in the thread running task k; `x += 1` on a
\* nonlocal is a read followed by a write, and another thread may run
\* between the two
StressStep(s, k, failed) ==
  LET t == s.tasks[k]
      at(pc, tmp) == [s EXCEPT !.tasks[k].pc = pc, !.tasks[k].tmp = tmp]
  IN CASE t.pc = "queued" -> at("store_count", s.request_count)
       [] t.pc = "store_count" ->
            [at("request", 0) EXCEPT !.request_count = t.tmp + 1]
       [] t.pc = "request" ->
            [at("load_result", 0) EXCEPT !.tasks[k].failed = failed, !.made = @ + 1]
       [] t.pc = "load_result" ->
            at("store_result",
               IF t.failed THEN s.failed_requests ELSE s.successful_requests)
       [] t.failed -> [at("done", 0) EXCEPT !.failed_requests = t.tmp + 1]
       [] OTHER -> [at("done", 0) EXCEPT !.successful_requests = t.tmp + 1]

StressInit ==
  /\ \E concurrent_requests \in ConcurrentRequests :
       stress = [pc |-> "submitting", concurrent_requests |-> concurrent_requests,
                 batches |-> 0, tasks |-> <<>>, made |-> 0,
                 request_count |-> 0, successful_requests |-> 0,
                 failed_requests |-> 0, total_requests |-> 0]
  /\ http = Idle /\ safe = Idle /\ tool = Idle /\ job = Idle
  /\ suite = Idle /\ poll = Idle /\ tier = Idle
  /\ ide = Idle /\ rebuild = Idle /\ perf = Idle /\ cleanup = Idle
  /\ ds = Idle
  /\ uat = Idle
  /\ boot = Idle
  /\ proj = Idle
  /\ prog = Idle
  /\ hw = Idle
  /\ sync = Idle
  /\ adv = Idle
  /\ wsops = Idle
  /\ life = Idle

\* one pass of `while time.time() - start_time < test_duration`: a batch of
\* min(concurrent_requests, 10) submits
StressSubmitBatch ==
  /\ stress.pc = "submitting" /\ stress.batches < MaxBatches
  /\ stress' = [stress EXCEPT
                  !.batches = @ + 1,
                  !.tasks = @ \o [k \in 1..stress.concurrent_requests |-> QueuedTask]]
  /\ UNCHANGED <<http, safe, tool, job, suite, poll, tier, ide, rebuild, perf, cleanup, ds, uat, boot, proj, prog, hw, sync, adv, wsops, life>>

\* test_duration is over: the `while` ends
StressDurationOver ==
  /\ stress.pc = "submitting"
  /\ stress' = [stress EXCEPT !.pc = "waiting"]
  /\ UNCHANGED <<http, safe, tool, job, suite, poll, tier, ide, rebuild, perf, cleanup, ds, uat, boot, proj, prog, hw, sync, adv, wsops, life>>

\* a thread of the pool runs one step of a task; the pool has
\* max_workers = concurrent_requests threads
StressWorker ==
  /\ stress.pc \in {"submitting", "waiting"}
  /\ \E k \in 1..Len(stress.tasks), failed \in BOOLEAN :
       /\ stress.tasks[k].pc # "done"
       /\ stress.tasks[k].pc = "queued" =>
            Cardinality(RunningTasks(stress)) < stress.concurrent_requests
       /\ stress' = StressStep(stress, k, failed)
  /\ UNCHANGED <<http, safe, tool, job, suite, poll, tier, ide, rebuild, perf, cleanup, ds, uat, boot, proj, prog, hw, sync, adv, wsops, life>>

\* the executor has shut down and every future has a result: the
\* returned mapping is built from the counters
StressReturn ==
  /\ stress.pc = "waiting"
  /\ \A k \in 1..Len(stress.tasks) : stress.tasks[k].pc = "done"
  /\ stress' = [stress EXCEPT !.pc = "done", !.total_requests = stress.request_count]
  /\ UNCHANGED <<http, safe, tool, job, suite, poll, tier, ide, rebuild, perf, cleanup, ds, uat, boot, proj, prog, hw, sync, adv, wsops, life>>

StressNext ==
  \/ StressSubmitBatch \/ StressDurationOver \/ StressWorker \/ StressReturn

SpecStress == StressInit /\ [][StressNext]_vars

\* C17: whatever the interleaving of the worker threads, the reported
\* total_requests equals successful_requests + failed_requests and equals
\* the number of requests the workers made
C17_CountersAddUp ==
  stress.pc = "done" =>
    /\ stress.total_requests = stress.successful_requests + stress.failed_requests
    /\ stress.total_requests = stress.made


\* ---------------------------------------------------------------------
\* performance_test_workspaces: start_workspace run by a thread pool
\* ---------------------------------------------------------------------

\* the largest concurrent_count tried
MaxWorkers == 3

ConcurrentCounts == 1..MaxWorkers

\* range(concurrent_count)
WorkerIndexes(s) == 0..(s.concurrent_count - 1)

\* start_workspace with a status the aggregation counts in neither list
StartWorkspaceErrorStatus(workspace_index, raised) ==
  [workspace_index |-> workspace_index,
   status |-> IF raised THEN "ERROR" ELSE "SIMULATED"]

\* the mapping start_workspace returns: SIMULATED, or FAILED when
\* _create_domino_client or _validate_hardware_tier raised
StartWorkspace(workspace_index, raised) ==
  [workspace_index |-> workspace_index,
   status |-> IF raised THEN "FAILED" ELSE "SIMULATED"]

\* the futures as_completed can yield next: finished and not yet yielded
AsCompleted(s) ==
  {i \in WorkerIndexes(s) :
     /\ s.workers[i].pc = "done"
     /\ \A k \in 1..Len(s.results) : s.results[k].workspace_index # i}

successful_launches(results) ==
  {k \in 1..Len(results) : results[k].status \in {"SUCCESS", "SIMULATED"}}

failed_launches(results) ==
  {k \in 1..Len(results) : results[k].status = "FAILED"}

PerfInit ==
  /\ \E concurrent_count \in ConcurrentCounts :
       perf = [pc |-> "collecting", concurrent_count |-> concurrent_count,
               workers |-> [i \in 0..(concurrent_count - 1) |->
                              [pc |-> "submitted", result |-> StartWorkspace(i, TRUE)]],
               results |-> <<>>, finished_at_aggregation |-> 0,
               successful |-> 0, failed |-> 0]
  /\ http = Idle /\ safe = Idle /\ tool = Idle /\ job = Idle
  /\ suite = Idle /\ poll = Idle /\ tier = Idle
  /\ ide = Idle /\ rebuild = Idle /\ stress = Idle /\ cleanup = Idle
  /\ ds = Idle
  /\ uat = Idle
  /\ boot = Idle
  /\ proj = Idle
  /\ prog = Idle
  /\ hw = Idle
  /\ sync = Idle
  /\ adv = Idle
  /\ wsops = Idle
  /\ life = Idle

\* a thread of the pool (max_workers = concurrent_count) picks up a future
PerfWorkerStart ==
  /\ perf.pc = "collecting"
  /\ \E i \in WorkerIndexes(perf) :
       /\ perf.workers[i].pc = "submitted"
       /\ perf' = [perf EXCEPT !.workers[i].pc = "running"]
  /\ UNCHANGED <<http, safe, tool, job, suite, poll, tier, ide, rebuild, stress, cleanup, ds, uat, boot, proj, prog, hw, sync, adv, wsops, life>>

\* start_workspace returns in its thread
PerfWorkerFinish ==
  /\ perf.pc = "collecting"
  /\ \E i \in WorkerIndexes(perf), raised \in BOOLEAN :
       /\ perf.workers[i].pc = "running"
       /\ perf' = [perf EXCEPT !.workers[i] =
                     [pc |-> "done", result |-> StartWorkspace(i, raised)]]
  /\ UNCHANGED <<http, safe, tool, job, suite, poll, tier, ide, rebuild, stress, cleanup, ds, uat, boot, proj, prog, hw, sync, adv, wsops, life>>

\* one element of `[future.result() for future in as_completed(futures)]`
PerfCollect ==
  /\ perf.pc = "collecting"
  /\ \E i \in AsCompleted(perf) :
       perf' = [perf EXCEPT !.results = Append(@, perf.workers[i].result)]
  /\ UNCHANGED <<http, safe, tool, job, suite, poll, tier, ide, rebuild, stress, cleanup, ds, uat, boot, proj, prog, hw, sync, adv, wsops, life>>

\* as_completed has yielded every future: the lists of successful and
\* failed launches are built and the mapping is returned
PerfAggregate ==
  /\ perf.pc = "collecting"
  /\ Len(perf.results) = perf.concurrent_count
  /\ perf' = [perf EXCEPT
                !.pc = "done",
                !.finished_at_aggregation =
                   Cardinality({i \in WorkerIndexes(perf) : perf.workers[i].pc = "done"}),
                !.successful = Cardinality(successful_launches(perf.results)),
                !.failed = Cardinality(failed_launches(perf.results))]
  /\ UNCHANGED <<http, safe, tool, job, suite, poll, tier, ide, rebuild, stress, cleanup, ds, uat, boot, proj, prog, hw, sync, adv, wsops, life>>

PerfNext == PerfWorkerStart \/ PerfWorkerFinish \/ PerfCollect \/ PerfAggregate

SpecPerf == PerfInit /\ [][PerfNext]_vars

\* C18: with N = concurrent_count workers, the aggregation starts only
\* after all N workers have finished, the results list has exactly one
\* entry for each worker index 0..N-1, and successful + failed = N
C18_WaitForAllThenAggregate ==
  perf.pc = "done" =>
    /\ perf.finished_at_aggregation = perf.concurrent_count
    /\ Len(perf.results) = perf.concurrent_count
    /\ \A i \in WorkerIndexes(perf) :
         Cardinality({k \in 1..Len(perf.results) :
                        perf.results[k].workspace_index = i}) = 1
    /\ perf.successful + perf.failed = perf.concurrent_count

\* three workers finished out of index order, one of them failed, and the
\* aggregation has been made
C18_Witness ==
  /\ perf.pc = "done" /\ perf.concurrent_count = 3
  /\ perf.results[1].workspace_index = 2
  /\ perf.successful = 2 /\ perf.failed = 1


\* ---------------------------------------------------------------------
\* workspace cleanup: Step 6 of test_workspace_hardware_tiers and
\* cleanup_all_project_workspaces
\* ---------------------------------------------------------------------

\* the most workspaces the project's listing holds
MaxWorkspaces == 2

\* range(3) of cleanup_all_project_workspaces
delete_attempts == 3

\* _get_project_id and the listing request, as cleanup_all reads them
ListOutcomes == {"no_project", "none", "error", "listed"}

\* the retry loop without the entry appended to result["errors"] when all
\* attempts failed
CleanupAllAttemptUnrecorded(c, del_ok) ==
  LET tried == [c EXCEPT !.log = @ \o <<Deleted(del_ok)>>]
  IN IF del_ok
     THEN [tried EXCEPT !.cleanup_success = TRUE, !.deleted = @ + 1, !.pc = "next"]
     ELSE IF c.attempt < delete_attempts
          THEN [tried EXCEPT !.attempt = @ + 1]
          ELSE [tried EXCEPT !.log = @ \o <<"sleep">>, !.pc = "next"]

\* one pass of `for attempt in range(3)`: a DELETE; break on success; the
\* `else` of the `for` runs once, after the last failed attempt, and only
\* there the code sleeps
CleanupAllAttempt(c, del_ok) ==
  LET tried == [c EXCEPT !.log = @ \o <<Deleted(del_ok)>>]
  IN IF del_ok
     THEN [tried EXCEPT !.cleanup_success = TRUE, !.deleted = @ + 1, !.pc = "next"]
     ELSE IF c.attempt < delete_attempts
          THEN [tried EXCEPT !.attempt = @ + 1]
          ELSE [tried EXCEPT !.log = @ \o <<"sleep">>, !.errors = @ + 1,
                             !.pc = "next"]

CleanupInit ==
  /\ \E loop \in {"tier", "all"} :
       cleanup = [pc |-> IF loop = "tier" THEN "cleanup" ELSE "list",
                  loop |-> loop, n |-> 0, w |-> 0, stopped |-> 0, deleted |-> 0,
                  errors |-> 0, processed |-> 0, status |-> "none",
                  error |-> FALSE,
                  attempt |-> 1, cleanup_success |-> FALSE, log |-> <<>>]
  /\ http = Idle /\ safe = Idle /\ tool = Idle /\ job = Idle
  /\ suite = Idle /\ poll = Idle /\ tier = Idle
  /\ ide = Idle /\ rebuild = Idle /\ stress = Idle /\ perf = Idle
  /\ ds = Idle
  /\ uat = Idle
  /\ boot = Idle
  /\ proj = Idle
  /\ prog = Idle
  /\ hw = Idle
  /\ sync = Idle
  /\ adv = Idle
  /\ wsops = Idle
  /\ life = Idle

\* hardware tiers, Step 6: one cleanup attempt for the tier's workspace
CleanupTierAttempt ==
  /\ cleanup.pc = "cleanup" /\ cleanup.loop = "tier"
  /\ \E del_ok \in BOOLEAN : cleanup' = CleanupAttempt(cleanup, del_ok)
  /\ UNCHANGED <<http, safe, tool, job, suite, poll, tier, ide, rebuild, stress, perf, ds, uat, boot, proj, prog, hw, sync, adv, wsops, life>>

\* hardware tiers: final verification
CleanupTierVerify ==
  /\ cleanup.pc = "verify" /\ cleanup.loop = "tier"
  /\ \E v \in VerifyResponses, direct_ok \in BOOLEAN :
       cleanup' = CleanupVerify(cleanup, v, direct_ok)
  /\ UNCHANGED <<http, safe, tool, job, suite, poll, tier, ide, rebuild, stress, perf, ds, uat, boot, proj, prog, hw, sync, adv, wsops, life>>

\* cleanup_all: project id and workspace listing
CleanupAllList ==
  /\ cleanup.pc = "list" /\ cleanup.loop = "all"
  /\ \E o \in ListOutcomes, n \in 0..MaxWorkspaces :
       cleanup' =
         IF o # "listed"
         THEN [cleanup EXCEPT !.pc = "done", !.status = "FAILED", !.error = TRUE]
         ELSE IF n = 0 THEN [cleanup EXCEPT !.pc = "done", !.status = "SUCCESS"]
         ELSE [cleanup EXCEPT !.pc = "stop", !.n = n, !.w = 1]
  /\ UNCHANGED <<http, safe, tool, job, suite, poll, tier, ide, rebuild, stress, perf, ds, uat, boot, proj, prog, hw, sync, adv, wsops, life>>

\* cleanup_all: the one stop request of the current workspace
CleanupAllStop ==
  /\ cleanup.pc = "stop" /\ cleanup.loop = "all"
  /\ \E ok \in BOOLEAN :
       cleanup' = [cleanup EXCEPT !.pc = "delete", !.log = <<"cleanup_stop">>,
                                  !.attempt = 1, !.cleanup_success = FALSE,
                                  !.stopped = @ + (IF ok THEN 1 ELSE 0)]
  /\ UNCHANGED <<http, safe, tool, job, suite, poll, tier, ide, rebuild, stress, perf, ds, uat, boot, proj, prog, hw, sync, adv, wsops, life>>

\* cleanup_all: one DELETE of the retry loop
CleanupAllDelete ==
  /\ cleanup.pc = "delete" /\ cleanup.loop = "all"
  /\ \E del_ok \in BOOLEAN : cleanup' = CleanupAllAttempt(cleanup, del_ok)
  /\ UNCHANGED <<http, safe, tool, job, suite, poll, tier, ide, rebuild, stress, perf, ds, uat, boot, proj, prog, hw, sync, adv, wsops, life>>

\* cleanup_all: the workspace is recorded; next workspace or the summary
CleanupAllNextWorkspace ==
  /\ cleanup.pc = "next" /\ cleanup.loop = "all"
  /\ cleanup' = IF cleanup.w < cleanup.n
                THEN [cleanup EXCEPT !.pc = "stop", !.w = @ + 1,
                                     !.processed = @ + 1]
                ELSE [cleanup EXCEPT !.pc = "done", !.status = "SUCCESS",
                                     !.processed = @ + 1]
  /\ UNCHANGED <<http, safe, tool, job, suite, poll, tier, ide, rebuild, stress, perf, ds, uat, boot, proj, prog, hw, sync, adv, wsops, life>>

\* cleanup_all: `except Exception as e: return {**result, "status": "FAILED",
\* "error": str(e)}`
CleanupAllHandler(c) == [c EXCEPT !.pc = "done", !.status = "FAILED", !.error = TRUE]

\* cleanup_all: an exception inside the loop. _make_api_request returns the
\* decoded JSON body as it is; `(stop_resp or {}).get(...)` and
\* `(del_resp or {}).get(...)` raise on an answer that is neither a JSON
\* object nor falsy, the latter in the `else` of the retry loop, after the
\* third DELETE
CleanupAllException ==
  /\ cleanup.pc \in {"stop", "delete"} /\ cleanup.loop = "all"
  /\ \/ /\ cleanup.pc = "stop"
        /\ cleanup' = CleanupAllHandler([cleanup EXCEPT !.log = <<"cleanup_stop">>])
     \/ /\ cleanup.pc = "delete" /\ cleanup.attempt = delete_attempts
        /\ cleanup' = CleanupAllHandler([cleanup EXCEPT !.log = @ \o <<Deleted(FALSE)>>])
  /\ UNCHANGED <<http, safe, tool, job, suite, poll, tier, ide, rebuild, stress, perf, ds, uat, boot, proj, prog, hw, sync, adv, wsops, life>>

CleanupNext ==
  \/ CleanupTierAttempt \/ CleanupTierVerify \/ CleanupAllList
  \/ CleanupAllStop \/ CleanupAllDelete \/ CleanupAllNextWorkspace
  \/ CleanupAllException

\* the three cleanup loops: the IDE suite's inside its suite, and the two
\* above
CleanupLoopsInit == IdeInit \/ CleanupInit

CleanupLoopsNext == IdeNext \/ CleanupNext

SpecCleanup == CleanupLoopsInit /\ [][CleanupLoopsNext]_vars

\* the requests and sleeps made so far for the workspace being cleaned up
CleanupLog ==
  IF ide.pc # "idle" THEN ide.log ELSE cleanup.log

\* C19: for each workspace at most 3 delete attempts are made, a wait
\* separates any two consecutive delete attempts, and no delete request is
\* sent after one succeeded
C19_DeleteWithRetry ==
  LET log == CleanupLog
      dels == {k \in 1..Len(log) : log[k] \in DeleteEvents}
  IN /\ Cardinality(dels) <= 3
     /\ \A i \in dels, j \in dels :
          i < j => \E k \in (i + 1)..(j - 1) : log[k] = "sleep"
     /\ \A i \in dels, j \in dels :
          log[i] \in {"delete_ok", "direct_delete_ok"} => j <= i


\* the current IDE's wait ended by the timeout: the loop's count of waited
\* seconds reached timeout_seconds with no check finding the workspace
\* Running
IdeTimedOut ==
  /\ ide.pc \in {"cleanup", "verify", "recorded"}
  /\ ~ide.is_running /\ ide.elapsed >= timeout_seconds

\* C20: for each IDE the requests are made in the order of the steps
\* create, start, poll, stop, delete, none without the step before it; a
\* recorded IDE result is SUCCESS only if a status check found the
\* workspace Running before the loop's 300 s were used up and the stop and
\* then the delete were issued after it; and the result is FAILED if the
\* wait timed out
C20_StepsInOrderAndStatus ==
  LET log == ide.log
      at(e) == {k \in 1..Len(log) : log[k] = e}
      dels == {k \in 1..Len(log) : log[k] \in DeleteEvents}
  IN /\ \A i \in 1..Len(log), j \in 1..Len(log) :
          i < j => StepOf(log[i]) <= StepOf(log[j])
     /\ at("start") # {} => at("create") # {}
     /\ at("poll") # {} => at("start") # {}
     /\ at("stop") # {} => at("poll") # {}
     /\ (\E k \in 1..Len(log) : StepOf(log[k]) = 5) => at("start") # {}
     /\ Cardinality(at("create")) <= 1 /\ Cardinality(at("start")) <= 1
     /\ Cardinality(at("stop")) <= 1
     /\ ide.ide_status = "SUCCESS" =>
          /\ ide.is_running /\ ide.elapsed < timeout_seconds
          /\ at("stop") # {}
          /\ log[Len(log)] # "poll"
     /\ (ide.pc = "recorded" /\ ide.ide_status = "SUCCESS") =>
          \E p \in at("poll"), s \in at("stop"), d \in dels : p < s /\ s < d
     /\ IdeTimedOut => ide.ide_status = "FAILED" /\ at("stop") = {}

\* the second IDE was seen Running after a wait, was stopped, and its
\* delete succeeded at the second attempt: its result is SUCCESS
C20_Witness ==
  /\ ide.pc = "recorded" /\ ide.i = 2 /\ ide.ide_status = "SUCCESS"
  /\ ide.elapsed = 2 * check_interval
  /\ CountIn(ide.log, DeleteEvents) = 2
  /\ ide.cleanup_success


\* ---------------------------------------------------------------------
\* cleanup_all_project_datasets, alone and as the last step of
\* run_datasets_spec_2_5_uat
\* ---------------------------------------------------------------------

\* the most datasets the listing holds
MaxDatasets == 2

NameQuickStart == <<"q", "u", "i", "c", "k", "-", "s", "t", "a", "r", "t">>
NameUatA == <<"u", "a", "t", "-", "a">>
NameUpperUatA == <<"U", "A", "T", "-", "a">>
NameMyUatA == <<"m", "y", "-", "u", "a", "t", "-", "a">>
NameUatTestDataset ==
  <<"a", "_", "U", "a", "t", "_", "t", "e", "s", "t", "_", "d", "a", "t", "a", "s", "e", "t">>
NamePrediction ==
  <<"p", "r", "e", "d", "i", "c", "t", "i", "o", "n", "_", "d", "a", "t", "a", "_",
    "u", "a", "t", "_", "1">>

DatasetNames ==
  {NameQuickStart, NameUatA, NameUpperUatA, NameMyUatA, NameUatTestDataset,
   NamePrediction}

\* dataset_prefix: the default, a differently cased one, and the empty one
DatasetPrefixes == {<<"u", "a", "t", "-">>, <<"U", "a", "t", "-">>, <<>>}

\* a listed dataset: its name and whether it carries an id
Datasets == [name : DatasetNames, has_id : BOOLEAN]

DatasetLists ==
  UNION {[1..n -> Datasets] : n \in 0..MaxDatasets}

\* str.startswith
StartsWith(s, prefix) ==
  Len(prefix) <= Len(s) /\ SubSeq(s, 1, Len(prefix)) = prefix

\* is_test_dataset with the prefix looked for anywhere in the name
is_test_dataset_anywhere(name, dataset_prefix) ==
  LET lowered == Lower(name)
  IN \/ Contains(Lower(dataset_prefix), lowered)
     \/ Contains(<<"u", "a", "t", "_", "t", "e", "s", "t", "_", "d", "a", "t", "a", "s", "e", "t">>, lowered)
     \/ Contains(<<"u", "a", "t", "-", "t", "e", "s", "t", "-", "d", "a", "t", "a", "s", "e", "t">>, lowered)
     \/ StartsWith(lowered, <<"p", "r", "e", "d", "i", "c", "t", "i", "o", "n", "_", "d", "a", "t", "a", "_", "u", "a", "t", "_">>)

\* is_test_dataset: every comparison is made on the lower-cased name
is_test_dataset(name, dataset_prefix) ==
  LET lowered == Lower(name)
  IN \/ StartsWith(lowered, Lower(dataset_prefix))
     \/ Contains(<<"u", "a", "t", "_", "t", "e", "s", "t", "_", "d", "a", "t", "a", "s", "e", "t">>, lowered)
     \/ Contains(<<"u", "a", "t", "-", "t", "e", "s", "t", "-", "d", "a", "t", "a", "s", "e", "t">>, lowered)
     \/ StartsWith(lowered, <<"p", "r", "e", "d", "i", "c", "t", "i", "o", "n", "_", "d", "a", "t", "a", "_", "u", "a", "t", "_">>)

\* fallback_endpoints without the None of a missing projectId
FallbackEndpoints(s) == IF s.has_project THEN 4 ELSE 3

mark_endpoints == 3

bulk_endpoints == 2

\* cleanup_result["datasets_processed"].append(entry) and the next dataset
DsProcessed(s, action) ==
  [s EXCEPT !.processed = Append(@, [index |-> s.i, action |-> action]),
            !.i = @ + 1, !.ep = 1, !.pc = "loop"]

\* a return of cleanup_all_project_datasets to its caller
DsReturned(s, status) ==
  [s EXCEPT !.pc = "cleanup_returned", !.status = status,
            !.error = (status = "FAILED")]

\* the suite's handler without its best-effort cleanup
SuiteHandlerNoCleanup(s) ==
  [s EXCEPT !.suite_status = "FAILED", !.suite_error = TRUE,
            !.in_handler = TRUE, !.pc = "done"]

\* the suite's `except Exception`: FAILED with an error, then the
\* best-effort cleanup
SuiteHandler(s) ==
  [s EXCEPT !.suite_status = "FAILED", !.suite_error = TRUE,
            !.in_handler = TRUE, !.pc = "cleanup_call"]

DsInit ==
  /\ \E caller \in {"tool", "suite"}, dataset_prefix \in DatasetPrefixes,
        datasets \in DatasetLists, has_project \in BOOLEAN :
       ds = [pc |-> IF caller = "tool" THEN "cleanup_call" ELSE "suite_ops",
             caller |-> caller,
             dataset_prefix |-> IF caller = "tool" THEN dataset_prefix
                                ELSE <<"u", "a", "t", "-">>,
             datasets |-> datasets, has_project |-> has_project,
             i |-> 1, ep |-> 1, processed |-> <<>>, touched |-> {},
             deleted |-> 0, skipped |-> 0, errors |-> 0, any_marked |-> FALSE,
             status |-> "none", error |-> FALSE, cleanups |-> 0,
             ops_passed |-> FALSE, mounting_passed |-> FALSE,
             in_handler |-> FALSE, suite_status |-> "none", suite_error |-> FALSE]
  /\ http = Idle /\ safe = Idle /\ tool = Idle /\ job = Idle
  /\ suite = Idle /\ poll = Idle /\ tier = Idle
  /\ ide = Idle /\ rebuild = Idle /\ stress = Idle /\ perf = Idle
  /\ cleanup = Idle /\ uat = Idle /\ boot = Idle /\ proj = Idle
  /\ prog = Idle /\ hw = Idle /\ sync = Idle
  /\ adv = Idle
  /\ wsops = Idle
  /\ life = Idle

\* suite: enhanced_test_dataset_operations
DsSuiteOps ==
  /\ ds.pc = "suite_ops"
  /\ \E o \in {"PASSED", "FAILED", "raise"} :
       ds' = IF o = "raise" THEN SuiteHandler(ds)
             ELSE [ds EXCEPT !.ops_passed = (o = "PASSED"), !.pc = "suite_mounting"]
  /\ UNCHANGED <<http, safe, tool, job, suite, poll, tier, ide, rebuild, stress, perf, cleanup, uat, boot, proj, prog, hw, sync, adv, wsops, life>>

\* suite: _generate_unique_name and test_dataset_mounting
DsSuiteMounting ==
  /\ ds.pc = "suite_mounting"
  /\ \E o \in {"PASSED", "FAILED", "raise"} :
       ds' = IF o = "raise" THEN SuiteHandler(ds)
             ELSE [ds EXCEPT !.mounting_passed = (o = "PASSED"), !.pc = "cleanup_call"]
  /\ UNCHANGED <<http, safe, tool, job, suite, poll, tier, ide, rebuild, stress, perf, cleanup, uat, boot, proj, prog, hw, sync, adv, wsops, life>>

\* cleanup_all_project_datasets is invoked: client, listing
DsCleanupCall ==
  /\ ds.pc = "cleanup_call"
  /\ \E o \in {"client_raises", "list_failed", "listed"} :
       LET called == [ds EXCEPT !.cleanups = @ + 1]
       IN ds' = IF o = "listed" THEN [called EXCEPT !.pc = "loop"]
                ELSE DsReturned(called, "FAILED")
  /\ UNCHANGED <<http, safe, tool, job, suite, poll, tier, ide, rebuild, stress, perf, cleanup, uat, boot, proj, prog, hw, sync, adv, wsops, life>>

\* `for ds in datasets`: the skip test and the id test of the next
\* dataset, or the end of the loop
DsNextDataset ==
  /\ ds.pc = "loop"
  /\ ds' = IF ds.i > Len(ds.datasets)
           THEN IF ds.any_marked THEN [ds EXCEPT !.pc = "bulk", !.ep = 1]
                ELSE DsReturned(ds, "SUCCESS")
           ELSE IF ~is_test_dataset(ds.datasets[ds.i].name, ds.dataset_prefix)
                THEN DsProcessed([ds EXCEPT !.skipped = @ + 1], "SKIPPED")
                ELSE IF ~ds.datasets[ds.i].has_id
                     THEN DsProcessed([ds EXCEPT !.errors = @ + 1], "ERROR")
                     ELSE [ds EXCEPT !.pc = "remove"]
  /\ UNCHANGED <<http, safe, tool, job, suite, poll, tier, ide, rebuild, stress, perf, cleanup, uat, boot, proj, prog, hw, sync, adv, wsops, life>>

\* _safe_execute(domino.datasets_remove, ...)
DsRemove ==
  /\ ds.pc = "remove"
  /\ \E ok \in BOOLEAN :
       LET sent == [ds EXCEPT !.touched = @ \cup {ds.i}]
       IN ds' = IF ok THEN DsProcessed([sent EXCEPT !.deleted = @ + 1], "DELETED")
                ELSE [sent EXCEPT !.pc = "fallback", !.ep = 1]
  /\ UNCHANGED <<http, safe, tool, job, suite, poll, tier, ide, rebuild, stress, perf, cleanup, uat, boot, proj, prog, hw, sync, adv, wsops, life>>

\* one DELETE of the fallback endpoints; a body that is a non-empty list
\* makes `(api_resp or {}).get` raise, which ends the function
DsFallback ==
  /\ ds.pc = "fallback"
  /\ \E r \in {"ok", "error", "list"} :
       ds' = CASE r = "ok" -> DsProcessed([ds EXCEPT !.deleted = @ + 1], "DELETED")
               [] r = "list" -> DsReturned(ds, "FAILED")
               [] OTHER -> IF ds.ep < FallbackEndpoints(ds)
                           THEN [ds EXCEPT !.ep = @ + 1]
                           ELSE [ds EXCEPT !.pc = "mark", !.ep = 1]
  /\ UNCHANGED <<http, safe, tool, job, suite, poll, tier, ide, rebuild, stress, perf, cleanup, uat, boot, proj, prog, hw, sync, adv, wsops, life>>

\* one POST to a request-to-delete endpoint
DsMark ==
  /\ ds.pc = "mark"
  /\ \E ok \in BOOLEAN :
       ds' = IF ok THEN DsProcessed([ds EXCEPT !.any_marked = TRUE], "MARKED")
             ELSE IF ds.ep < mark_endpoints THEN [ds EXCEPT !.ep = @ + 1]
             ELSE DsProcessed([ds EXCEPT !.errors = @ + 1], "ERROR")
  /\ UNCHANGED <<http, safe, tool, job, suite, poll, tier, ide, rebuild, stress, perf, cleanup, uat, boot, proj, prog, hw, sync, adv, wsops, life>>

\* one DELETE of the marked datasets in bulk
DsBulk ==
  /\ ds.pc = "bulk"
  /\ \E ok \in BOOLEAN :
       ds' = IF ok \/ ds.ep = bulk_endpoints THEN DsReturned(ds, "SUCCESS")
             ELSE [ds EXCEPT !.ep = @ + 1]
  /\ UNCHANGED <<http, safe, tool, job, suite, poll, tier, ide, rebuild, stress, perf, cleanup, uat, boot, proj, prog, hw, sync, adv, wsops, life>>

\* the caller goes on: the tool returns; the suite sets its status from
\* the two scenarios, or returns from its handler
DsCallerReturns ==
  /\ ds.pc = "cleanup_returned"
  /\ ds' = IF ds.caller = "suite" /\ ~ds.in_handler
           THEN [ds EXCEPT !.pc = "done",
                           !.suite_status = IF ds.ops_passed /\ ds.mounting_passed
                                            THEN "PASSED" ELSE "FAILED"]
           ELSE [ds EXCEPT !.pc = "done"]
  /\ UNCHANGED <<http, safe, tool, job, suite, poll, tier, ide, rebuild, stress, perf, cleanup, uat, boot, proj, prog, hw, sync, adv, wsops, life>>

DsNext ==
  \/ DsSuiteOps \/ DsSuiteMounting \/ DsCleanupCall \/ DsNextDataset
  \/ DsRemove \/ DsFallback \/ DsMark \/ DsBulk \/ DsCallerReturns

SpecDatasets == DsInit /\ [][DsNext]_vars


\* the name matches one of the fixed test-dataset patterns, whatever its case
MatchesTestPattern(name) ==
  \/ Contains(<<"u", "a", "t", "_", "t", "e", "s", "t", "_", "d", "a", "t", "a", "s", "e", "t">>, Lower(name))
  \/ Contains(<<"u", "a", "t", "-", "t", "e", "s", "t", "-", "d", "a", "t", "a", "s", "e", "t">>, Lower(name))
  \/ StartsWith(Lower(name), <<"p", "r", "e", "d", "i", "c", "t", "i", "o", "n", "_", "d", "a", "t", "a", "_", "u", "a", "t", "_">>)

\* how often listed dataset k occurs in datasets_processed
TimesProcessed(k) ==
  Cardinality({e \in 1..Len(ds.processed) : ds.processed[e].index = k})

DsCleanupOver == ds.pc \in {"cleanup_returned", "done"} /\ ds.cleanups > 0

\* C21 as stated: no delete or mark request is sent for a dataset whose
\* name neither starts with the given prefix nor matches a test-dataset
\* pattern, and every listed dataset appears exactly once in
\* datasets_processed
C21_AsStated ==
  /\ \A k \in ds.touched :
       \/ StartsWith(ds.datasets[k].name, ds.dataset_prefix)
       \/ MatchesTestPattern(ds.datasets[k].name)
  /\ (DsCleanupOver /\ (ds.status = "SUCCESS" \/ ds.i \in ds.touched)) =>
       \A k \in 1..Len(ds.datasets) : TimesProcessed(k) = 1

\* C21 amended: a delete or mark request is sent only for a dataset whose
\* lower-cased name starts with the lower-cased prefix or matches a
\* test-dataset pattern; a cleanup that returns SUCCESS has every listed
\* dataset exactly once in datasets_processed, in listing order; one that
\* returns FAILED has listed none or stopped at a dataset whose fallback
\* DELETE was answered with a list, with the datasets before it once each
C21_RequestsOnlyForTestNames ==
  /\ \A k \in ds.touched :
       \/ StartsWith(Lower(ds.datasets[k].name), Lower(ds.dataset_prefix))
       \/ MatchesTestPattern(ds.datasets[k].name)
  /\ \A e \in 1..Len(ds.processed) : ds.processed[e].index = e
  /\ (DsCleanupOver /\ ds.status = "SUCCESS") =>
       Len(ds.processed) = Len(ds.datasets)
  /\ (DsCleanupOver /\ ds.status = "FAILED") =>
       /\ Len(ds.processed) = ds.i - 1
       /\ Len(ds.processed) < Len(ds.datasets) => ds.i \in ds.touched \/ ds.i = 1

\* quick-start was skipped and the test dataset after it was deleted
C21_Witness ==
  /\ DsCleanupOver /\ ds.status = "SUCCESS" /\ Len(ds.datasets) = 2
  /\ ds.datasets[1].name = NameQuickStart /\ ds.datasets[2].name = NameUatA
  /\ ds.processed[1].action = "SKIPPED" /\ ds.processed[2].action = "DELETED"
  /\ ds.touched = {2}


\* C26: on every path through run_datasets_spec_2_5_uat, also when a
\* dataset scenario raises, cleanup_all_project_datasets is invoked
\* exactly once before the suite returns
C26_CleanupExactlyOnce ==
  (ds.pc # "idle" /\ ds.caller = "suite") =>
    /\ ds.cleanups <= 1
    /\ ds.pc = "done" => ds.cleanups = 1

\* the mounting scenario raised, the handler ran the cleanup, which
\* deleted a dataset, and the suite returned FAILED with an error
C26_Witness ==
  /\ ds.pc = "done" /\ ds.caller = "suite" /\ ds.in_handler /\ ds.ops_passed
  /\ ds.suite_status = "FAILED" /\ ds.suite_error
  /\ ds.cleanups = 1 /\ ds.deleted = 1


\* ---------------------------------------------------------------------
\* run_user_uat_suite: eight scenario functions in a fixed order, then a
\* summary with a 60% threshold
\* ---------------------------------------------------------------------

\* keys of user_results["tests"], in the order the suite fills them
UserTests ==
  << "authentication", "python_workflow", "dataset_access",
     "workspace_operations", "file_management",
     "environment_revision_build", "collaboration", "model_operations" >>

\* what a scenario function puts in the "status" of its result
UserTestStatuses == {"PASSED", "FAILED", "ERROR"}

RECURSIVE passed_tests(_)
passed_tests(tests) ==
  IF tests = << >> THEN 0
  ELSE (IF Head(tests) = "PASSED" THEN 1 ELSE 0) + passed_tests(Tail(tests))

\* a threshold of one half instead of 0.6
UserOverallStatusHalf(passed, total) ==
  IF passed * 10 >= total * 5 THEN "PASSED" ELSE "FAILED"

\* "PASSED" if passed_tests >= total_tests * 0.6 else "FAILED"
UserOverallStatus(passed, total) ==
  IF passed * 10 >= total * 6 THEN "PASSED" ELSE "FAILED"

UatInit ==
  /\ uat = [pc |-> "tests", tests |-> << >>, total_tests |-> 0,
            passed_tests |-> 0, status |-> "NONE"]
  /\ http = Idle /\ safe = Idle /\ tool = Idle /\ job = Idle
  /\ suite = Idle /\ poll = Idle /\ tier = Idle /\ ide = Idle
  /\ rebuild = Idle /\ stress = Idle /\ perf = Idle /\ cleanup = Idle
  /\ ds = Idle /\ boot = Idle /\ proj = Idle /\ prog = Idle
  /\ hw = Idle /\ sync = Idle
  /\ adv = Idle
  /\ wsops = Idle
  /\ life = Idle

\* one scenario function returns and its result is stored under its key
UatSubTest ==
  /\ uat.pc = "tests"
  /\ Len(uat.tests) < Len(UserTests)
  /\ \E st \in UserTestStatuses :
       uat' = [uat EXCEPT !.tests = Append(@, st)]
  /\ UNCHANGED <<http, safe, tool, job, suite, poll, tier, ide, rebuild,
                 stress, perf, cleanup, ds, boot, proj, prog, hw, sync, adv, wsops, life>>

\* the summary and the suite's status, then return
UatSummary ==
  /\ uat.pc = "tests"
  /\ Len(uat.tests) = Len(UserTests)
  /\ uat' = [uat EXCEPT
       !.pc = "done",
       !.total_tests = Len(uat.tests),
       !.passed_tests = passed_tests(uat.tests),
       !.status = UserOverallStatus(passed_tests(uat.tests), Len(uat.tests))]
  /\ UNCHANGED <<http, safe, tool, job, suite, poll, tier, ide, rebuild,
                 stress, perf, cleanup, ds, boot, proj, prog, hw, sync, adv, wsops, life>>

UatNext == UatSubTest \/ UatSummary

SpecUat == UatInit /\ [][UatNext]_vars

\* the number of stored results whose status is PASSED
UatPassedCount ==
  Cardinality({k \in 1..Len(uat.tests) : uat.tests[k] = "PASSED"})

\* C22: run_user_uat_suite reports PASSED if and only if at least 60% of
\* its sub-tests passed, and FAILED otherwise
C22_SixtyPercentThreshold ==
  uat.pc = "done" =>
    /\ Len(uat.tests) = 8
    /\ uat.status \in {"PASSED", "FAILED"}
    /\ uat.status = "PASSED" <=> UatPassedCount * 100 >= 60 * Len(uat.tests)

\* five of the eight passed and the suite says PASSED
C22_Witness ==
  /\ uat.pc = "done" /\ uat.status = "PASSED"
  /\ UatPassedCount = 5 /\ uat.total_tests = 8


\* ---------------------------------------------------------------------
\* Module start-up: the API key and the host are read from the
\* environment and checked
\* ---------------------------------------------------------------------

\* the two names the module reads, and two other names under which a
\* Domino deployment publishes the same values
EnvKeyName == "DOMINO_API_KEY"
EnvHostName == "DOMINO_HOST"
OtherKeyName == "DOMINO_USER_API_KEY"
OtherHostName == "DOMINO_API_HOST"
EnvNames == {EnvKeyName, EnvHostName, OtherKeyName, OtherHostName}

\* a variable is unset, set to the empty string, or set to a value
EnvValues == {"unset", "", "value"}
Environments == [EnvNames -> EnvValues]

OtherNameOf(name) == IF name = EnvKeyName THEN OtherKeyName ELSE OtherHostName

\* a lookup that falls back to the other name when the first is unset
getenv_with_fallback(env, name) ==
  IF env[name] # "unset" THEN env[name]
  ELSE IF env[OtherNameOf(name)] # "unset" THEN env[OtherNameOf(name)]
  ELSE "None"

\* os.getenv(name): the value, or None when the variable is unset
getenv(env, name) == IF env[name] = "unset" THEN "None" ELSE env[name]

\* Python truth value of what os.getenv returned
Truthy(v) == v \notin {"None", ""}

BootInit ==
  /\ \E env \in Environments :
       boot = [pc |-> "load", env |-> env, domino_api_key |-> "None",
               domino_host |-> "None", error |-> "NONE"]
  /\ http = Idle /\ safe = Idle /\ tool = Idle /\ job = Idle
  /\ suite = Idle /\ poll = Idle /\ tier = Idle /\ ide = Idle
  /\ rebuild = Idle /\ stress = Idle /\ perf = Idle /\ cleanup = Idle
  /\ ds = Idle /\ uat = Idle /\ proj = Idle /\ prog = Idle
  /\ hw = Idle /\ sync = Idle
  /\ adv = Idle
  /\ wsops = Idle
  /\ life = Idle

\* domino_api_key = os.getenv(...); domino_host = os.getenv(...)
BootReadEnv ==
  /\ boot.pc = "load"
  /\ boot' = [boot EXCEPT !.pc = "check_key",
                !.domino_api_key = getenv(boot.env, EnvKeyName),
                !.domino_host = getenv(boot.env, EnvHostName)]
  /\ UNCHANGED <<http, safe, tool, job, suite, poll, tier, ide, rebuild,
                 stress, perf, cleanup, ds, uat, proj, prog, hw, sync, adv, wsops, life>>

\* if not domino_api_key: raise ValueError
BootCheckKey ==
  /\ boot.pc = "check_key"
  /\ boot' = IF Truthy(boot.domino_api_key)
             THEN [boot EXCEPT !.pc = "check_host"]
             ELSE [boot EXCEPT !.pc = "failed", !.error = EnvKeyName]
  /\ UNCHANGED <<http, safe, tool, job, suite, poll, tier, ide, rebuild,
                 stress, perf, cleanup, ds, uat, proj, prog, hw, sync, adv, wsops, life>>

\* if not domino_host: raise ValueError; otherwise the server object is made
BootCheckHost ==
  /\ boot.pc = "check_host"
  /\ boot' = IF Truthy(boot.domino_host)
             THEN [boot EXCEPT !.pc = "started"]
             ELSE [boot EXCEPT !.pc = "failed", !.error = EnvHostName]
  /\ UNCHANGED <<http, safe, tool, job, suite, poll, tier, ide, rebuild,
                 stress, perf, cleanup, ds, uat, proj, prog, hw, sync, adv, wsops, life>>

BootNext == BootReadEnv \/ BootCheckKey \/ BootCheckHost

SpecBoot == BootInit /\ [][BootNext]_vars

BootOver == boot.pc \in {"started", "failed"}

\* a value is available for the name under the name itself or the other one
PresentUnderSomeName(name) ==
  \/ boot.env[name] \notin {"unset", ""}
  \/ boot.env[OtherNameOf(name)] \notin {"unset", ""}

PresentOnlyUnderOtherName(name) ==
  /\ boot.env[name] = "unset"
  /\ boot.env[OtherNameOf(name)] \notin {"unset", ""}

\* C23 as stated: each of the two values comes from a required variable
\* with a legacy-named fallback; start-up fails if a value is absent under
\* both names and succeeds if it is present only under the legacy name
C23_AsStated ==
  (boot.pc # "idle" /\ BootOver) =>
    (boot.pc = "started" <=>
       PresentUnderSomeName(EnvKeyName) /\ PresentUnderSomeName(EnvHostName))

\* C23 amended: each value is read from one variable only, DOMINO_API_KEY
\* and DOMINO_HOST; start-up succeeds exactly when both are set to a
\* non-empty value, and it fails with the ValueError of the first one that
\* is not, whatever other variables hold
C23_RequiredWithoutFallback ==
  (boot.pc # "idle" /\ BootOver) =>
    /\ boot.pc = "started" <=>
         /\ boot.env[EnvKeyName] \notin {"unset", ""}
         /\ boot.env[EnvHostName] \notin {"unset", ""}
    /\ boot.pc = "failed" =>
         boot.error = (IF boot.env[EnvKeyName] \in {"unset", ""}
                       THEN EnvKeyName ELSE EnvHostName)

\* the key is set only under the other name, the host under its own
\* name, and start-up failed on the key
C23_Witness ==
  /\ boot.pc = "failed" /\ boot.error = EnvKeyName
  /\ PresentOnlyUnderOtherName(EnvKeyName)
  /\ boot.env[EnvHostName] = "value"


\* ---------------------------------------------------------------------
\* ensure_project_exists, create_domino_project, create_project_if_needed
\* ---------------------------------------------------------------------

\* answers of POST /v4/projects; "raise" is an exception in requests.post
\* or in response.json()
CreateResponses == {"201", "409", "500", "raise"}

\* the status ensure_project_exists returns: the client could not be made
\* (ERROR), runs_list passed (EXISTS) or failed (NOT_FOUND)
EnsureStatus(client_ok, runs_status) ==
  IF ~client_ok THEN "ERROR"
  ELSE IF runs_status = "PASSED" THEN "EXISTS"
  ELSE "NOT_FOUND"

\* the status create_domino_project returns for a response
CreateStatus(response) ==
  IF response = "201" THEN "CREATED"
  ELSE IF response = "409" THEN "EXISTS"
  ELSE "FAILED"

\* what runs_list can answer: it fails for a project that does not exist
\* or that the user has no access to, and may fail for one that is there
\* (platform not reachable)
RunsStatuses(exists, access) ==
  IF exists /\ access THEN {"PASSED", "FAILED"} ELSE {"FAILED"}

\* what the platform can answer to the create request
CreateAnswers(exists) ==
  IF exists THEN {"409", "500", "raise"} ELSE {"201", "500", "raise"}

ProjReturned(s, status) == [s EXCEPT !.pc = "done", !.status = status]

\* the status test_user_authentication gives its result, from the status
\* of its project_setup and of its own runs_list
AuthenticationStatus(project_status, runs_status) ==
  IF project_status \in {"EXISTS", "CREATED", "CREATED_UNVERIFIED"}
  THEN (IF runs_status = "PASSED" THEN "PASSED" ELSE "FAILED")
  ELSE IF project_status = "NOT_FOUND" THEN "SKIPPED"
  ELSE "FAILED"

\* callers: "ensure" is a call of ensure_project_exists on its own,
\* "authentication" is test_user_authentication, which calls it first,
\* "create_if_needed" is create_project_if_needed
ProjCallers == {"ensure", "authentication", "create_if_needed"}

ProjInit ==
  /\ \E caller \in ProjCallers, exists \in BOOLEAN,
        client_ok \in BOOLEAN, visible \in BOOLEAN, access \in BOOLEAN :
       proj = [pc |-> "check", caller |-> caller, exists |-> exists,
               access |-> access,
               existed |-> exists, client_ok |-> client_ok,
               visible |-> visible, posts |-> 0, checks |-> 0,
               exists_status |-> "NONE", create_status |-> "NONE",
               status |-> "NONE", test_status |-> "NONE"]
  /\ http = Idle /\ safe = Idle /\ tool = Idle /\ job = Idle
  /\ suite = Idle /\ poll = Idle /\ tier = Idle /\ ide = Idle
  /\ rebuild = Idle /\ stress = Idle /\ perf = Idle /\ cleanup = Idle
  /\ ds = Idle /\ uat = Idle /\ boot = Idle /\ prog = Idle
  /\ hw = Idle /\ sync = Idle
  /\ adv = Idle
  /\ wsops = Idle
  /\ life = Idle

\* ensure_project_exists, called by a scenario or first by
\* create_project_if_needed: one runs_list, no other request
ProjEnsure ==
  /\ proj.pc = "check"
  /\ \E rs \in RunsStatuses(proj.exists, proj.access) :
       LET st == EnsureStatus(proj.client_ok, rs)
           s == [proj EXCEPT !.checks = @ + 1, !.exists_status = st] IN
       proj' = IF proj.caller = "create_if_needed" /\ st = "NOT_FOUND"
               THEN [s EXCEPT !.pc = "create"]
               ELSE IF proj.caller = "authentication"
               THEN [s EXCEPT !.pc = "authenticate", !.status = st]
               ELSE ProjReturned(s, st)
  /\ UNCHANGED <<http, safe, tool, job, suite, poll, tier, ide, rebuild,
                 stress, perf, cleanup, ds, uat, boot, prog, hw, sync, adv, wsops, life>>

\* create_domino_project: one POST; 201 makes the project exist
ProjCreate ==
  /\ proj.pc = "create"
  /\ \E r \in CreateAnswers(proj.exists) :
       LET st == CreateStatus(r)
           s == [proj EXCEPT !.posts = @ + 1, !.create_status = st,
                             !.exists = @ \/ r = "201"] IN
       proj' = IF st = "CREATED" THEN [s EXCEPT !.pc = "verify"]
               ELSE ProjReturned(s, "CREATION_FAILED")
  /\ UNCHANGED <<http, safe, tool, job, suite, poll, tier, ide, rebuild,
                 stress, perf, cleanup, ds, uat, boot, prog, hw, sync, adv, wsops, life>>

\* after asyncio.sleep(3): ensure_project_exists again; the new project
\* may not be visible to runs_list yet
ProjVerify ==
  /\ proj.pc = "verify"
  /\ \E rs \in (IF proj.visible THEN {"PASSED"} ELSE {"FAILED"}) :
       proj' = ProjReturned([proj EXCEPT !.checks = @ + 1],
                 IF EnsureStatus(proj.client_ok, rs) = "EXISTS"
                 THEN "CREATED" ELSE "CREATED_UNVERIFIED")
  /\ UNCHANGED <<http, safe, tool, job, suite, poll, tier, ide, rebuild,
                 stress, perf, cleanup, ds, uat, boot, prog, hw, sync, adv, wsops, life>>

\* test_user_authentication after its project_setup: a runs_list of its
\* own when the project is there, SKIPPED when it was not found
ProjAuthenticate ==
  /\ proj.pc = "authenticate"
  /\ \E rs \in RunsStatuses(proj.exists, proj.access) :
       proj' = [proj EXCEPT
         !.pc = "done",
         !.checks = IF proj.status = "EXISTS" THEN @ + 1 ELSE @,
         !.test_status = AuthenticationStatus(proj.status, rs)]
  /\ UNCHANGED <<http, safe, tool, job, suite, poll, tier, ide, rebuild,
                 stress, perf, cleanup, ds, uat, boot, prog, hw, sync, adv, wsops, life>>

ProjNext == ProjEnsure \/ ProjCreate \/ ProjVerify \/ ProjAuthenticate

SpecProj == ProjInit /\ [][ProjNext]_vars

\* C24: ensure_project_exists creates the project when it is not found:
\* it issues a create request, and it reports the project as existing
\* once the creation succeeded
C24_EnsureCreates ==
  (proj.pc = "done" /\ proj.caller \in {"ensure", "authentication"}
     /\ proj.client_ok /\ ~proj.existed) =>
    /\ proj.posts >= 1
    /\ proj.exists => proj.status = "EXISTS"

\* the function returned NOT_FOUND for a project that does not exist and
\* sent no create request
C24_Witness ==
  /\ proj.pc = "done" /\ proj.caller = "authentication" /\ ~proj.existed
  /\ proj.status = "NOT_FOUND" /\ proj.posts = 0 /\ ~proj.exists
  /\ proj.test_status = "SKIPPED"


\* ---------------------------------------------------------------------
\* run_progressive_uat_suite: eight steps, each run through
\* run_with_timeout_async or run_with_timeout with a limit of 60 seconds
\* ---------------------------------------------------------------------

\* the "is_async" entry of each of the eight test_steps, in order; the
\* function of every step is declared with "async def"
test_steps ==
  << [name |-> "core_advanced_uat", is_async |-> TRUE],
     [name |-> "job_scheduling_uat", is_async |-> FALSE],
     [name |-> "admin_portal_uat", is_async |-> FALSE],
     [name |-> "model_api_uat", is_async |-> TRUE],
     [name |-> "environment_creation_uat", is_async |-> FALSE],
     [name |-> "workspace_ide_uat", is_async |-> FALSE],
     [name |-> "dataset_operations_uat", is_async |-> TRUE],
     [name |-> "cleanup_operations", is_async |-> TRUE] >>

\* what an awaited scenario coroutine can do: return after some seconds,
\* raise, or still be running when the limit is reached
CoroutineBehaviours == {"returns", "raises", "slow"}

\* run_with_timeout_async: asyncio.wait_for on the coroutine; ran says
\* whether the scenario's body ran to its end
run_with_timeout_async(behaviour) ==
  IF behaviour = "returns" THEN [status |-> "SUCCESS", ran |-> TRUE]
  ELSE IF behaviour = "slow" THEN [status |-> "TIMEOUT", ran |-> FALSE]
  ELSE [status |-> "ERROR", ran |-> FALSE]

\* run_with_timeout on an "async def" function: the worker thread calls
\* the function, which only builds a coroutine object; future.result
\* returns that object at once and the body of the scenario never runs
run_with_timeout(behaviour) == [status |-> "SUCCESS", ran |-> FALSE]

ProgInit ==
  /\ prog = [pc |-> "steps", i |-> 1, results |-> << >>,
             total_tests |-> 0, passed |-> 0, failed |-> 0, timeout |-> 0,
             status |-> "RUNNING"]
  /\ http = Idle /\ safe = Idle /\ tool = Idle /\ job = Idle
  /\ suite = Idle /\ poll = Idle /\ tier = Idle /\ ide = Idle
  /\ rebuild = Idle /\ stress = Idle /\ perf = Idle /\ cleanup = Idle
  /\ ds = Idle /\ uat = Idle /\ boot = Idle /\ proj = Idle
  /\ hw = Idle /\ sync = Idle
  /\ adv = Idle
  /\ wsops = Idle
  /\ life = Idle

\* one iteration of the loop over test_steps
ProgStep ==
  /\ prog.pc = "steps"
  /\ prog.i <= Len(test_steps)
  /\ \E b \in CoroutineBehaviours :
       LET step_result == IF test_steps[prog.i].is_async
                          THEN run_with_timeout_async(b)
                          ELSE run_with_timeout(b) IN
       prog' = [prog EXCEPT
         !.i = @ + 1,
         !.results = Append(@, step_result),
         !.passed = IF step_result.status = "SUCCESS" THEN @ + 1 ELSE @,
         !.timeout = IF step_result.status = "TIMEOUT" THEN @ + 1 ELSE @,
         !.failed = IF step_result.status \notin {"SUCCESS", "TIMEOUT"}
                    THEN @ + 1 ELSE @,
         !.total_tests = @ + 1]
  /\ UNCHANGED <<http, safe, tool, job, suite, poll, tier, ide, rebuild,
                 stress, perf, cleanup, ds, uat, boot, proj, hw, sync, adv, wsops, life>>

\* final status, executive summary, return
ProgReturn ==
  /\ prog.pc = "steps"
  /\ prog.i > Len(test_steps)
  /\ prog' = [prog EXCEPT !.pc = "done", !.status = "COMPLETED"]
  /\ UNCHANGED <<http, safe, tool, job, suite, poll, tier, ide, rebuild,
                 stress, perf, cleanup, ds, uat, boot, proj, hw, sync, adv, wsops, life>>

ProgNext == ProgStep \/ ProgReturn

SpecProg == ProgInit /\ [][ProgNext]_vars

\* the steps whose scenario ran to its end within the limit
ProgRanToCompletion ==
  {k \in 1..Len(prog.results) : prog.results[k].ran}

\* C25: the suite runs each of its 8 steps under a 1-minute timeout; a
\* step is counted in summary.passed only if its scenario function ran to
\* completion within the limit, a step that exceeds the limit is reported
\* as a timeout, and passed + failed + timeout = total_tests = 8 when the
\* suite returns
C25_PassedOnlyIfRan ==
  prog.pc = "done" =>
    /\ prog.passed <= Cardinality(ProgRanToCompletion)
    /\ prog.passed + prog.failed + prog.timeout = prog.total_tests
    /\ prog.total_tests = 8

\* the suite returned with every awaited step timed out and still
\* four steps counted as passed, none of which ran
C25_Witness ==
  /\ prog.pc = "done" /\ prog.passed = 4 /\ prog.timeout = 4
  /\ ProgRanToCompletion = {}


\* C27: in the IDE suite every workspace that was created receives at
\* least one DELETE before the next IDE's test begins and before the suite
\* returns, on every path, also when an exception is raised while that
\* IDE is tested
C27_CreatedWorkspaceGetsDelete ==
  (ide.pc = "recorded" /\ ide.workspace_id) =>
    CountIn(ide.log, DeleteEvents) >= 1

\* the status check raised after the workspace was created and started;
\* the IDE's result is recorded and no DELETE was sent
C27_Witness ==
  /\ ide.pc = "recorded" /\ ide.workspace_id /\ ide.ide_status = "FAILED"
  /\ CountIn(ide.log, {"start"}) = 1
  /\ CountIn(ide.log, DeleteEvents) = 0


\* ---------------------------------------------------------------------
\* test_workspace_hardware_tiers: the loop over workspace_tiers and the
\* list test_results["operations"]
\* ---------------------------------------------------------------------

\* how the wait loop of a tier ends: Running seen, the wall-clock test
\* inside the loop, elapsed reaching timeout_seconds, or a raising body
WaitExits == {"running", "wallclock", "elapsed", "raise"}

\* answers to the verification GET of the cleanup: the workspace is gone
\* (404), the request failed otherwise (timeout, 5xx, no connection), the
\* workspace is returned, or the body is a JSON null, on which the test
\* for "error" raises
LookupAnswers == {"not_found", "failed", "exists", "null"}

\* `"error" in verify_response`: _make_api_request reports every failure
\* of the request under the key "error"
LookupHasError(answer) == answer \in {"not_found", "failed"}

\* tier_result is one dict: operations holds references to it, so an
\* entry shows the status last written to the tier's dict
HwOperationStatus(s, k) == s.results[s.operations[k]]

HwCount(s, statuses) ==
  Cardinality({k \in 1..Len(s.operations) : HwOperationStatus(s, k) \in statuses})

HwSetStatus(s, st) == [s EXCEPT !.results[s.i] = st]

\* test_results["operations"].append(tier_result)
HwAppend(s) == [s EXCEPT !.operations = Append(@, s.i)]

\* `continue`, or the end of the loop body: the next tier or the summary
HwContinue(s) ==
  IF s.i < s.n
  THEN [s EXCEPT !.pc = "begin", !.i = @ + 1, !.workspace_id = FALSE,
                 !.delete_ok = FALSE, !.lookup = "none", !.deleted = FALSE]
  ELSE [s EXCEPT !.pc = "summary"]

\* the per-tier handler: FAILED, and a cleanup with a DELETE when the
\* workspace id is known; deleted is set True after the direct DELETE
\* whatever it returned
HwHandler(s, del_ok, direct_ok) ==
  LET f == [HwSetStatus(s, "FAILED") EXCEPT !.pc = "append"]
  IN IF ~s.workspace_id THEN f
     ELSE [f EXCEPT !.delete_ok = del_ok \/ direct_ok, !.deleted = TRUE]

\* status of the test from the entries of operations
HwOverallStatus(s) ==
  LET successful == HwCount(s, {"SUCCESS"})
      partial == HwCount(s, {"PARTIAL"})
  IN IF successful + partial = s.n
     THEN (IF successful = s.n THEN "PASSED" ELSE "PARTIAL")
     ELSE IF successful + partial > 0 THEN "PARTIAL" ELSE "FAILED"

HwInit ==
  /\ hw = [pc |-> "preamble", n |-> 0, i |-> 1,
           results |-> [k \in 1..MaxTiers |-> "NONE"], operations |-> << >>,
           workspace_id |-> FALSE, delete_ok |-> FALSE, lookup |-> "none",
           deleted |-> FALSE, wait_exit |-> "none", status |-> "RUNNING",
           error |-> FALSE, tiers_total |-> NotYet,
           tiers_successful |-> NotYet, tiers_failed |-> NotYet]
  /\ http = Idle /\ safe = Idle /\ tool = Idle /\ job = Idle
  /\ suite = Idle /\ poll = Idle /\ tier = Idle /\ ide = Idle
  /\ rebuild = Idle /\ stress = Idle /\ perf = Idle /\ cleanup = Idle
  /\ ds = Idle /\ uat = Idle /\ boot = Idle /\ proj = Idle
  /\ prog = Idle /\ sync = Idle
  /\ adv = Idle
  /\ wsops = Idle
  /\ life = Idle


\* project, headers, tier data and the target tiers found; tier data of
\* None makes the loop over it raise, which the outer handler catches
HwPreamble ==
  /\ hw.pc = "preamble"
  /\ \E n \in 0..MaxTiers, raises \in BOOLEAN :
       hw' = IF raises
             THEN [hw EXCEPT !.pc = "done", !.status = "FAILED", !.error = TRUE]
             ELSE IF n = 0 THEN [hw EXCEPT !.pc = "done", !.status = "SKIPPED"]
             ELSE [hw EXCEPT !.pc = "begin", !.n = n]
  /\ UNCHANGED <<http, safe, tool, job, suite, poll, tier, ide, rebuild,
                 stress, perf, cleanup, ds, uat, boot, proj, prog, sync, adv, wsops, life>>

\* the overall 15-minute test before a tier starts: SKIPPED and break
HwBegin ==
  /\ hw.pc = "begin"
  /\ \E overall_timeout \in BOOLEAN :
       hw' = IF overall_timeout /\ hw.i > 1
             THEN [HwAppend(HwSetStatus(hw, "SKIPPED")) EXCEPT !.pc = "summary"]
             ELSE [hw EXCEPT !.pc = "create"]
  /\ UNCHANGED <<http, safe, tool, job, suite, poll, tier, ide, rebuild,
                 stress, perf, cleanup, ds, uat, boot, proj, prog, sync, adv, wsops, life>>

\* Step 1 and the timeout test after creation
HwCreate ==
  /\ hw.pc = "create"
  /\ \E success \in BOOLEAN, late \in BOOLEAN, del_ok \in BOOLEAN :
       hw' = IF ~success
             THEN HwContinue(HwAppend(HwSetStatus(hw, "FAILED")))
             ELSE IF late
             THEN HwContinue(HwAppend(HwSetStatus(
                    [hw EXCEPT !.workspace_id = TRUE, !.delete_ok = del_ok],
                    "TIMEOUT")))
             ELSE [hw EXCEPT !.pc = "start", !.workspace_id = TRUE]
  /\ UNCHANGED <<http, safe, tool, job, suite, poll, tier, ide, rebuild,
                 stress, perf, cleanup, ds, uat, boot, proj, prog, sync, adv, wsops, life>>

\* Step 2
HwStart ==
  /\ hw.pc = "start"
  /\ \E success \in BOOLEAN, del_ok \in BOOLEAN :
       hw' = IF success THEN [hw EXCEPT !.pc = "wait"]
             ELSE HwContinue(HwAppend(HwSetStatus(
                    [hw EXCEPT !.delete_ok = del_ok], "FAILED")))
  /\ UNCHANGED <<http, safe, tool, job, suite, poll, tier, ide, rebuild,
                 stress, perf, cleanup, ds, uat, boot, proj, prog, sync, adv, wsops, life>>

\* what follows the wall-clock test inside the wait loop: stop, delete,
\* TIMEOUT, append, break
HwWallClockBreak(s, del_ok) ==
  HwAppend(HwSetStatus([s EXCEPT !.delete_ok = del_ok], "TIMEOUT"))

\* `if not is_running:` FAILED, stop, delete, append, continue
HwNotRunning(s, del_ok) ==
  HwContinue(HwAppend(HwSetStatus(
    [s EXCEPT !.delete_ok = @ \/ del_ok], "FAILED")))

\* Step 3: the wait loop to its exit, and the test that follows it
HwWait ==
  /\ hw.pc = "wait"
  /\ \E e \in WaitExits, del_ok \in BOOLEAN, again_ok \in BOOLEAN,
        direct_ok \in BOOLEAN :
       LET w == [hw EXCEPT !.wait_exit = e] IN
       hw' = CASE e = "running" -> [w EXCEPT !.pc = "verify"]
               [] e = "wallclock" ->
                    HwNotRunning(HwWallClockBreak(w, del_ok), again_ok)
               [] e = "elapsed" -> HwNotRunning(w, del_ok)
               [] OTHER -> HwHandler(w, del_ok, direct_ok)
  /\ UNCHANGED <<http, safe, tool, job, suite, poll, tier, ide, rebuild,
                 stress, perf, cleanup, ds, uat, boot, proj, prog, sync, adv, wsops, life>>

\* Steps 4 and 5: the tier of the running workspace, the stop, the
\* status SUCCESS or PARTIAL; a body of the wrong shape raises
HwVerifyStop ==
  /\ hw.pc = "verify"
  /\ \E outcome \in {"verified", "unverified", "raise"},
        del_ok \in BOOLEAN, direct_ok \in BOOLEAN :
       hw' = CASE outcome = "verified" ->
                    [HwSetStatus(hw, "SUCCESS") EXCEPT !.pc = "cleanup"]
               [] outcome = "unverified" ->
                    [HwSetStatus(hw, "PARTIAL") EXCEPT !.pc = "cleanup"]
               [] OTHER -> HwHandler(hw, del_ok, direct_ok)
  /\ UNCHANGED <<http, safe, tool, job, suite, poll, tier, ide, rebuild,
                 stress, perf, cleanup, ds, uat, boot, proj, prog, sync, adv, wsops, life>>

\* tier_result["deleted"] after Step 6: a cleanup attempt succeeded, or
\* the verification GET had "error", or the direct DELETE had none
TierCleanupDeleted(attempt_ok, answer, direct_ok) ==
  attempt_ok \/ LookupHasError(answer) \/ (answer = "exists" /\ direct_ok)

\* Step 6: the cleanup attempts and the final verification
HwCleanup ==
  /\ hw.pc = "cleanup"
  /\ \E attempt_ok \in BOOLEAN, answer \in LookupAnswers, direct_ok \in BOOLEAN :
       hw' = [hw EXCEPT
         !.pc = "append",
         !.delete_ok = attempt_ok \/ (answer = "exists" /\ direct_ok),
         !.lookup = IF attempt_ok THEN "none" ELSE answer,
         !.deleted = TierCleanupDeleted(attempt_ok, answer, direct_ok)]
  /\ UNCHANGED <<http, safe, tool, job, suite, poll, tier, ide, rebuild,
                 stress, perf, cleanup, ds, uat, boot, proj, prog, sync, adv, wsops, life>>

\* the append that ends the loop body
HwTrailingAppend ==
  /\ hw.pc = "append"
  /\ hw' = HwContinue(HwAppend(hw))
  /\ UNCHANGED <<http, safe, tool, job, suite, poll, tier, ide, rebuild,
                 stress, perf, cleanup, ds, uat, boot, proj, prog, sync, adv, wsops, life>>

\* overall status and the three counts, then return
HwSummary ==
  /\ hw.pc = "summary"
  /\ hw' = [hw EXCEPT !.pc = "done", !.status = HwOverallStatus(hw),
              !.tiers_total = hw.n,
              !.tiers_successful = HwCount(hw, {"SUCCESS"}),
              !.tiers_failed = HwCount(hw, {"FAILED"})]
  /\ UNCHANGED <<http, safe, tool, job, suite, poll, tier, ide, rebuild,
                 stress, perf, cleanup, ds, uat, boot, proj, prog, sync, adv, wsops, life>>

HwNext ==
  \/ HwPreamble \/ HwBegin \/ HwCreate \/ HwStart \/ HwWait
  \/ HwVerifyStop \/ HwCleanup \/ HwTrailingAppend \/ HwSummary

SpecHw == HwInit /\ [][HwNext]_vars

\* the number of entries of operations that refer to tier k
HwEntriesOf(k) ==
  Cardinality({j \in 1..Len(hw.operations) : hw.operations[j] = k})

\* C28: each tested tier contributes exactly one entry to operations on
\* every path, so that tiers_successful + tiers_failed never exceeds
\* tiers_total
C28_OneEntryPerTier ==
  /\ hw.pc = "summary" => \A k \in 1..hw.i : HwEntriesOf(k) = 1
  /\ (hw.pc = "done" /\ hw.tiers_total # NotYet) =>
       hw.tiers_successful + hw.tiers_failed <= hw.tiers_total

\* one tier was found, its wait ended on the wall-clock test, and the
\* test returned with two entries and tiers_failed = 2
C28_Witness ==
  /\ hw.pc = "done" /\ hw.tiers_total = 1 /\ hw.wait_exit = "wallclock"
  /\ Len(hw.operations) = 2 /\ hw.tiers_failed = 2


\* ---------------------------------------------------------------------
\* test_workspace_file_sync: create, start, wait, sync, cleanup
\* ---------------------------------------------------------------------

\* how the wait loop ends: Running seen, a Failed/Stopped/Error status,
\* max_wait_time reached, or a status body that makes the check raise
SyncWaitExits == {"running", "terminal", "timeout", "raise"}

\* the status the break of the loop leaves in wait_result
WaitStatusAtBreak(exit) ==
  IF exit = "running" THEN "SUCCESS"
  ELSE IF exit = "terminal" THEN "FAILED"
  ELSE "RUNNING"

\* wait_result["status"] as appended: `if not workspace_running` writes
\* TIMEOUT over whatever the loop left
WaitStatus(exit) ==
  IF exit = "running" THEN WaitStatusAtBreak(exit) ELSE "TIMEOUT"

\* answers to the sync POST, and sync_result["status"] for each
SyncAnswers == {"ok", "not_found", "other_error"}

SyncStatus(answer) ==
  IF answer = "ok" THEN "SUCCESS"
  ELSE IF answer = "not_found" THEN "FAILED"
  ELSE "PARTIAL"

SyncOp(name, status) == [operation |-> name, status |-> status]

SyncAppend(s, name, status) ==
  [s EXCEPT !.operations = Append(@, SyncOp(name, status))]

SyncStatusOf(s, name) ==
  LET found == {k \in 1..Len(s.operations) : s.operations[k].operation = name}
  IN IF found = {} THEN "NONE"
     ELSE s.operations[CHOOSE k \in found : \A j \in found : k <= j].status

\* overall status from the sync_workspace_files entry
SyncOverallStatus(s) ==
  IF SyncStatusOf(s, "sync_workspace_files") \in {"SUCCESS", "PARTIAL"}
  THEN "PASSED" ELSE "FAILED"

SyncInit ==
  /\ sync = [pc |-> "preamble", operations |-> << >>, wait_exit |-> "none",
             raised |-> FALSE, delete_ok |-> FALSE, lookup |-> "none",
             deleted |-> FALSE, status |-> "RUNNING", error |-> FALSE]
  /\ http = Idle /\ safe = Idle /\ tool = Idle /\ job = Idle
  /\ suite = Idle /\ poll = Idle /\ tier = Idle /\ ide = Idle
  /\ rebuild = Idle /\ stress = Idle /\ perf = Idle /\ cleanup = Idle
  /\ ds = Idle /\ uat = Idle /\ boot = Idle /\ proj = Idle
  /\ prog = Idle /\ hw = Idle
  /\ adv = Idle
  /\ wsops = Idle
  /\ life = Idle

\* the outer `except Exception`, then end_time and return
SyncOuterHandler(s) == [s EXCEPT !.pc = "done", !.status = "FAILED", !.error = TRUE]

\* project and headers, then Step 1 in its own try
SyncCreate ==
  /\ sync.pc = "preamble"
  /\ \E outcome \in {"created", "failed", "raise", "preamble_raise"} :
       sync' = CASE outcome = "created" ->
                      [SyncAppend(sync, "create_workspace", "SUCCESS")
                         EXCEPT !.pc = "start"]
                 [] outcome = "preamble_raise" -> SyncOuterHandler(sync)
                 [] OTHER ->
                      [SyncAppend(sync, "create_workspace", "FAILED")
                         EXCEPT !.pc = "done", !.status = "FAILED"]
  /\ UNCHANGED <<http, safe, tool, job, suite, poll, tier, ide, rebuild,
                 stress, perf, cleanup, ds, uat, boot, proj, prog, hw, adv, wsops, life>>

\* Step 2: the session POST; an error still lets the test go on
SyncStart ==
  /\ sync.pc = "start"
  /\ \E ok \in BOOLEAN :
       sync' = [SyncAppend(sync, "start_workspace_session",
                           IF ok THEN "SUCCESS" ELSE "PARTIAL")
                  EXCEPT !.pc = "wait"]
  /\ UNCHANGED <<http, safe, tool, job, suite, poll, tier, ide, rebuild,
                 stress, perf, cleanup, ds, uat, boot, proj, prog, hw, adv, wsops, life>>

\* Step 3: the wait loop to its exit and the append of wait_result; a
\* raising check goes to the finally block with nothing appended
SyncWait ==
  /\ sync.pc = "wait"
  /\ \E e \in SyncWaitExits :
       sync' = IF e = "raise"
               THEN [sync EXCEPT !.pc = "cleanup", !.wait_exit = e,
                                 !.raised = TRUE]
               ELSE [SyncAppend(sync, "wait_for_running", WaitStatus(e))
                       EXCEPT !.pc = "sync", !.wait_exit = e]
  /\ UNCHANGED <<http, safe, tool, job, suite, poll, tier, ide, rebuild,
                 stress, perf, cleanup, ds, uat, boot, proj, prog, hw, adv, wsops, life>>

\* Step 4: the sync POST, sent whether or not the workspace is running
SyncFiles ==
  /\ sync.pc = "sync"
  /\ \E a \in SyncAnswers :
       sync' = [SyncAppend(sync, "sync_workspace_files", SyncStatus(a))
                  EXCEPT !.pc = "cleanup"]
  /\ UNCHANGED <<http, safe, tool, job, suite, poll, tier, ide, rebuild,
                 stress, perf, cleanup, ds, uat, boot, proj, prog, hw, adv, wsops, life>>

\* Step 5 in the finally block: cleanup attempts, final verification,
\* cleanup_result appended
SyncCleanup ==
  /\ sync.pc = "cleanup"
  /\ \E attempt_ok \in BOOLEAN, answer \in LookupAnswers, direct_ok \in BOOLEAN :
       LET deleted == TierCleanupDeleted(attempt_ok, answer, direct_ok) IN
       sync' = [SyncAppend(sync, "cleanup_workspace",
                           IF deleted THEN "SUCCESS" ELSE "PARTIAL")
                  EXCEPT !.pc = "status",
                         !.delete_ok = attempt_ok \/ (answer = "exists" /\ direct_ok),
                         !.lookup = IF attempt_ok THEN "none" ELSE answer,
                         !.deleted = deleted]
  /\ UNCHANGED <<http, safe, tool, job, suite, poll, tier, ide, rebuild,
                 stress, perf, cleanup, ds, uat, boot, proj, prog, hw, adv, wsops, life>>

\* the exception of the wait loop reaches the outer handler after the
\* finally block; otherwise the overall status, then return
SyncReturn ==
  /\ sync.pc = "status"
  /\ sync' = IF sync.raised THEN SyncOuterHandler(sync)
             ELSE [sync EXCEPT !.pc = "done", !.status = SyncOverallStatus(sync)]
  /\ UNCHANGED <<http, safe, tool, job, suite, poll, tier, ide, rebuild,
                 stress, perf, cleanup, ds, uat, boot, proj, prog, hw, adv, wsops, life>>

SyncNext ==
  \/ SyncCreate \/ SyncStart \/ SyncWait \/ SyncFiles \/ SyncCleanup
  \/ SyncReturn

SpecSync == SyncInit /\ [][SyncNext]_vars

\* C29: when a status check of the wait reports Failed, Stopped or Error,
\* wait_for_running is recorded with status FAILED, not TIMEOUT, and the
\* sync step is not attempted
C29_TerminalStatusIsFailed ==
  (sync.pc = "done" /\ sync.wait_exit = "terminal") =>
    /\ SyncStatusOf(sync, "wait_for_running") = "FAILED"
    /\ SyncStatusOf(sync, "sync_workspace_files") = "NONE"

\* the workspace reported a terminal status, the wait is recorded as
\* TIMEOUT, the sync POST was sent and answered, and the test PASSED
C29_Witness ==
  /\ sync.pc = "done" /\ sync.wait_exit = "terminal"
  /\ SyncStatusOf(sync, "wait_for_running") = "TIMEOUT"
  /\ SyncStatusOf(sync, "sync_workspace_files") = "SUCCESS"
  /\ sync.status = "PASSED"


\* the two tests whose cleanup result carries "deleted"
DeletedInit == HwInit \/ SyncInit

DeletedNext == HwNext \/ SyncNext

SpecDeleted == DeletedInit /\ [][DeletedNext]_vars

\* C30: a cleanup result says deleted = true only if a DELETE for the
\* workspace returned without error or the lookup that follows found the
\* workspace gone; a lookup that failed for any other reason never
\* yields deleted = true
C30_DeletedOnlyIfGone ==
  /\ (hw.pc # "idle" /\ hw.deleted) =>
       (hw.delete_ok \/ hw.lookup = "not_found")
  /\ (sync.pc # "idle" /\ sync.deleted) =>
       (sync.delete_ok \/ sync.lookup = "not_found")

\* no DELETE succeeded, the verification GET failed for another reason
\* than the workspace being gone, and the file-sync cleanup result says
\* deleted with status SUCCESS
C30_Witness ==
  /\ sync.pc = "done" /\ sync.deleted /\ ~sync.delete_ok
  /\ sync.lookup = "failed"
  /\ SyncStatusOf(sync, "cleanup_workspace") = "SUCCESS"


\* C31: run_master_comprehensive_uat_suite returns PASSED only if every
\* one of its 14 scenarios returned a passing status (a scenario that
\* returned PARTIAL, ERROR or another non-passing status, or that raised,
\* prevents PASSED), and passed_tests + failed_tests = total_tests = 14
C31_PassedOnlyIfAllPassed ==
  (suite.pc = "done" /\ suite.which = "master") =>
    /\ suite.status = "PASSED" => suite.passed = Len(MasterSuite)
    /\ suite.passed + suite.failed = Len(MasterSuite)
    /\ Len(MasterSuite) = 14

\* the master suite returned PASSED although only 13 scenarios passed:
\* one returned a status that is counted neither as passed nor as failed
C31_Witness ==
  /\ suite.pc = "done" /\ suite.which = "master" /\ suite.status = "PASSED"
  /\ suite.passed = 13 /\ suite.failed = 0 /\ Len(suite.invoked) = 14


\* ---------------------------------------------------------------------
\* run_comprehensive_advanced_uat_suite: eight scenarios, then a summary
\* ---------------------------------------------------------------------

\* keys of suite_results["tests"], in the order the suite fills them
AdvancedTests ==
  << "authentication", "dataset_operations", "file_operations",
     "environment_revision_build", "advanced_jobs", "collaboration",
     "models", "ide_workspaces" >>

\* the status with which a scenario reports its own success:
\* test_comprehensive_ide_workspace_suite says SUCCESS, the others PASSED
OwnSuccessStatus(name) == IF name = "ide_workspaces" THEN "SUCCESS" ELSE "PASSED"

\* the statuses a scenario can return
AdvancedStatuses(name) ==
  IF name = "ide_workspaces" THEN {"SUCCESS", "PARTIAL", "FAILED", "ERROR"}
  ELSE {"PASSED", "FAILED", "SKIPPED"}

\* sum(1 for result in tests.values() if result["status"] == status)
AdvancedCount(tests, status) ==
  Cardinality({k \in 1..Len(tests) : tests[k] = status})

\* passed_tests of the summary
AdvancedPassed(tests) == AdvancedCount(tests, "PASSED")

AdvInit ==
  /\ adv = [pc |-> "tests", tests |-> << >>, total_tests |-> 0, passed |-> 0,
            failed |-> 0, skipped |-> 0, status |-> "NONE"]
  /\ http = Idle /\ safe = Idle /\ tool = Idle /\ job = Idle
  /\ suite = Idle /\ poll = Idle /\ tier = Idle /\ ide = Idle
  /\ rebuild = Idle /\ stress = Idle /\ perf = Idle /\ cleanup = Idle
  /\ ds = Idle /\ uat = Idle /\ boot = Idle /\ proj = Idle
  /\ prog = Idle /\ hw = Idle /\ sync = Idle /\ wsops = Idle /\ life = Idle

\* one scenario returns and its result is stored under its key
AdvScenario ==
  /\ adv.pc = "tests"
  /\ Len(adv.tests) < Len(AdvancedTests)
  /\ \E st \in AdvancedStatuses(AdvancedTests[Len(adv.tests) + 1]) :
       adv' = [adv EXCEPT !.tests = Append(@, st)]
  /\ UNCHANGED <<http, safe, tool, job, suite, poll, tier, ide, rebuild,
                 stress, perf, cleanup, ds, uat, boot, proj, prog, hw, sync,
                 wsops, life>>

\* the counts, the status and the return
AdvSummary ==
  /\ adv.pc = "tests"
  /\ Len(adv.tests) = Len(AdvancedTests)
  /\ LET total == Len(adv.tests)
         passed == AdvancedPassed(adv.tests)
         skipped == AdvancedCount(adv.tests, "SKIPPED")
         failed == total - passed - skipped
     IN adv' = [adv EXCEPT !.pc = "done", !.total_tests = total,
                  !.passed = passed, !.skipped = skipped, !.failed = failed,
                  !.status = IF failed = 0 THEN "PASSED" ELSE "FAILED"]
  /\ UNCHANGED <<http, safe, tool, job, suite, poll, tier, ide, rebuild,
                 stress, perf, cleanup, ds, uat, boot, proj, prog, hw, sync,
                 wsops, life>>

AdvNext == AdvScenario \/ AdvSummary

SpecAdv == AdvInit /\ [][AdvNext]_vars

\* every scenario returned the status with which it reports success
AdvAllSucceeded ==
  \A k \in 1..Len(AdvancedTests) :
    adv.tests[k] = OwnSuccessStatus(AdvancedTests[k])

\* C32: in run_comprehensive_advanced_uat_suite, passed + failed +
\* skipped = total_tests, and if every one of the 8 scenarios reports its
\* own success status (SUCCESS for the IDE workspace suite) the suite is
\* PASSED with failed_tests = 0
C32_AllSucceededIsPassed ==
  adv.pc = "done" =>
    /\ adv.passed + adv.failed + adv.skipped = adv.total_tests
    /\ adv.total_tests = 8
    /\ AdvAllSucceeded => (adv.status = "PASSED" /\ adv.failed = 0)

\* all eight scenarios succeeded and the suite returned FAILED with the
\* IDE suite counted as the one failed test
C32_Witness ==
  /\ adv.pc = "done" /\ AdvAllSucceeded
  /\ adv.status = "FAILED" /\ adv.failed = 1 /\ adv.passed = 7


\* C33: in test_post_upgrade_env_rebuild, once a step has taken the simulated
\* path (recorded as SIMULATED_SUCCESS), the scenario continues as if the step
\* had succeeded: every recorded step has a success status, none is ERROR, and
\* the returned overall status is PASSED.
C33_SimulatedContinuesAsSuccess ==
  (/\ rebuild.pc = "done"
   /\ ~rebuild.error
   /\ \E k \in 1..Len(rebuild.operations) :
        rebuild.operations[k] = "SIMULATED_SUCCESS") =>
    /\ \A k \in 1..Len(rebuild.operations) : rebuild.operations[k] \in Passing
    /\ rebuild.status = "PASSED"

\* the simulated discovery followed by the two steps that fail on it
C33_Witness ==
  /\ rebuild.pc = "done"
  /\ rebuild.operations = <<"SIMULATED_SUCCESS", "ERROR", "ERROR">>
  /\ rebuild.status = "PARTIAL"


\* the stop requests sent for the workspace being processed
StopEvents == {"cleanup_stop"}

\* C34 as stated: in cleanup_all_project_workspaces each listed workspace is
\* processed exactly once, with at most one stop request and at most 3 delete
\* requests, and on return deleted + (number of entries in errors) =
\* (number of entries in workspaces_processed) = (number of workspaces listed)
C34_AsStated ==
  (cleanup.pc # "idle" /\ cleanup.loop = "all") =>
    /\ CountIn(cleanup.log, StopEvents) <= 1
    /\ CountIn(cleanup.log, DeleteEvents) <= delete_attempts
    /\ cleanup.pc = "done" =>
         /\ cleanup.deleted + cleanup.errors = cleanup.processed
         /\ cleanup.processed = cleanup.n

\* C34: each listed workspace is processed at most once, with at most one
\* stop request and at most 3 delete requests; deleted + (number of entries
\* in errors) = (number of entries in workspaces_processed) on every return,
\* and on a return that no exception caused this is the number of workspaces
\* listed
C34_ProcessedOnceUnlessRaised ==
  (cleanup.pc # "idle" /\ cleanup.loop = "all") =>
    /\ CountIn(cleanup.log, StopEvents) <= 1
    /\ CountIn(cleanup.log, DeleteEvents) <= delete_attempts
    /\ cleanup.processed <= cleanup.w /\ cleanup.w <= cleanup.n
    /\ cleanup.pc = "done" =>
         /\ cleanup.deleted + cleanup.errors = cleanup.processed
         /\ cleanup.status = "SUCCESS" => cleanup.processed = cleanup.n

\* two workspaces listed, one deleted and one whose three DELETEs failed
C34_Witness ==
  /\ cleanup.pc = "done" /\ cleanup.loop = "all" /\ cleanup.status = "SUCCESS"
  /\ cleanup.n = 2 /\ cleanup.processed = 2
  /\ cleanup.deleted = 1 /\ cleanup.errors = 1
  /\ CountIn(cleanup.log, DeleteEvents) = delete_attempts



\* ---------------------------------------------------------------------------
\* Workspace lifecycle helpers (_test_create_workspace,
\* _test_start_workspace_session, _test_stop_workspace_session,
\* _test_delete_workspace) and test_workspace_operations
\* ---------------------------------------------------------------------------

\* result.get("workspace_id") of a result without that entry
NoId == "None"

WorkspaceId == "ws1"

\* what _make_api_request returns to a helper: a JSON object, an object with
\* "error", or a value that is not an object (None, a list, a string)
HelperAnswers == {"object", "error", "not_object"}

\* the create request: no environment found (no request is sent), an object
\* with an "id", an object without one (a text record, for instance)
CreateWsAnswers == {"no_environment", "object_with_id", "object", "error", "not_object"}

\* the `except Exception` result of a helper
HelperRaised == [success |-> FALSE, workspace_id |-> NoId, error |-> "exception"]

\* the result of a helper whose gate failed ("No workspace available ...")
HelperRefused == [success |-> FALSE, workspace_id |-> NoId, error |-> "no_workspace"]

\* `not r.get("success") or not r.get("workspace_id")`, negated
HelperGate(r) == r.success /\ r.workspace_id # NoId

\* the result a helper builds from the answer to its request
HelperResult(workspace_id, answer) ==
  CASE answer = "object" ->
         [success |-> TRUE, workspace_id |-> workspace_id, error |-> "none"]
    [] answer = "error" ->
         [success |-> FALSE, workspace_id |-> workspace_id, error |-> "request_failed"]
    [] OTHER -> HelperRaised

\* _test_create_workspace: its result and the requests it sent
test_create_workspace(answer) ==
  CASE answer = "no_environment" ->
         [result |-> [success |-> FALSE, workspace_id |-> NoId,
                      error |-> "no_environment"],
          requests |-> <<>>]
    [] answer = "object_with_id" ->
         [result |-> [success |-> TRUE, workspace_id |-> WorkspaceId, error |-> "none"],
          requests |-> <<"create">>]
    [] answer = "object" ->
         [result |-> [success |-> TRUE, workspace_id |-> NoId, error |-> "none"],
          requests |-> <<"create">>]
    [] answer = "error" ->
         [result |-> [success |-> FALSE, workspace_id |-> NoId,
                      error |-> "request_failed"],
          requests |-> <<"create">>]
    [] OTHER -> [result |-> HelperRaised, requests |-> <<"create">>]

test_start_workspace_session(workspace_create_result, answer) ==
  IF ~HelperGate(workspace_create_result)
  THEN [result |-> HelperRefused, requests |-> <<>>]
  ELSE [result |-> HelperResult(workspace_create_result.workspace_id, answer),
        requests |-> <<"start">>]

test_stop_workspace_session(workspace_start_result, answer) ==
  IF ~HelperGate(workspace_start_result)
  THEN [result |-> HelperRefused, requests |-> <<>>]
  ELSE [result |-> HelperResult(workspace_start_result.workspace_id, answer),
        requests |-> <<"stop">>]

\* _test_delete_workspace without its gate
test_delete_workspace_ungated(workspace_create_result, answer) ==
  [result |-> HelperResult(workspace_create_result.workspace_id, answer),
   requests |-> <<"delete">>]

test_delete_workspace(workspace_create_result, answer) ==
  IF ~HelperGate(workspace_create_result)
  THEN [result |-> HelperRefused, requests |-> <<>>]
  ELSE [result |-> HelperResult(workspace_create_result.workspace_id, answer),
        requests |-> <<"delete">>]

\* an operation status that reports an unsuccessful helper as FAILED
WsopsOperationStatusFailed(result) == IF result.success THEN "PASSED" ELSE "FAILED"

\* "PASSED" if result.get("success") else "WARNING"
WsopsOperationStatus(result) == IF result.success THEN "PASSED" ELSE "WARNING"

\* test_workspace_operations, "Determine overall status"
WsopsOverallStatus(operations) ==
  LET has(st) == \E k \in 1..Len(operations) : operations[k].status = st
  IN CASE has("FAILED") -> "FAILED"
       [] has("WARNING") /\ ~has("PASSED") -> "WARNING"
       [] has("WARNING") /\ has("PASSED") -> "PARTIAL"
       [] has("PASSED") -> "PASSED"
       [] OTHER -> "UNKNOWN"

\* one helper call of test_workspace_operations: the operation is recorded
\* under its name and the helper's requests are added to those sent
WsopsRecord(s, name, call, next) ==
  [s EXCEPT !.operations = Append(@, [name |-> name,
                                      status |-> WsopsOperationStatus(call.result),
                                      result |-> call.result]),
            !.requests = @ \o call.requests,
            !.pc = next]

WsopsInit ==
  /\ wsops = [pc |-> "ensure", project_id |-> FALSE, operations |-> <<>>,
              create |-> HelperRefused, start |-> HelperRefused,
              requests |-> <<>>, status |-> "none", error |-> FALSE]
  /\ http = Idle /\ safe = Idle /\ tool = Idle /\ job = Idle
  /\ suite = Idle /\ poll = Idle /\ tier = Idle
  /\ ide = Idle /\ rebuild = Idle /\ stress = Idle /\ perf = Idle
  /\ cleanup = Idle /\ ds = Idle /\ uat = Idle /\ boot = Idle
  /\ proj = Idle /\ prog = Idle /\ hw = Idle /\ sync = Idle
  /\ adv = Idle /\ life = Idle

\* ensure_project_exists; any status but EXISTS and READY ends the test
WsopsEnsure ==
  /\ wsops.pc = "ensure"
  /\ \E ready \in BOOLEAN :
       wsops' = IF ready THEN [wsops EXCEPT !.pc = "client"]
                ELSE [wsops EXCEPT !.pc = "done", !.status = "FAILED", !.error = TRUE]
  /\ UNCHANGED <<http, safe, tool, job, suite, poll, tier, ide, rebuild, stress, perf, cleanup, ds, uat, boot, proj, prog, hw, sync, adv, life>>

\* _create_domino_client, which raises when the Domino library is missing;
\* the outer `except Exception` then returns FAILED
WsopsClient ==
  /\ wsops.pc = "client"
  /\ \E raised \in BOOLEAN :
       wsops' = IF raised
                THEN [wsops EXCEPT !.pc = "done", !.status = "FAILED", !.error = TRUE]
                ELSE [wsops EXCEPT !.pc = "project_id"]
  /\ UNCHANGED <<http, safe, tool, job, suite, poll, tier, ide, rebuild, stress, perf, cleanup, ds, uat, boot, proj, prog, hw, sync, adv, life>>

\* Step 1: _get_project_id
WsopsProjectId ==
  /\ wsops.pc = "project_id"
  /\ \E found \in BOOLEAN :
       wsops' = IF found
                THEN [wsops EXCEPT !.pc = "list", !.project_id = TRUE]
                ELSE [wsops EXCEPT !.pc = "done", !.status = "FAILED", !.error = TRUE]
  /\ UNCHANGED <<http, safe, tool, job, suite, poll, tier, ide, rebuild, stress, perf, cleanup, ds, uat, boot, proj, prog, hw, sync, adv, life>>

\* Test 1: _test_list_workspaces
WsopsList ==
  /\ wsops.pc = "list"
  /\ \E answer \in HelperAnswers :
       wsops' = WsopsRecord(wsops, "list_workspaces",
                            [result |-> HelperResult(NoId, answer), requests |-> <<"list">>],
                            "create")
  /\ UNCHANGED <<http, safe, tool, job, suite, poll, tier, ide, rebuild, stress, perf, cleanup, ds, uat, boot, proj, prog, hw, sync, adv, life>>

\* Test 2
WsopsCreate ==
  /\ wsops.pc = "create"
  /\ \E answer \in CreateWsAnswers :
       LET call == test_create_workspace(answer)
       IN wsops' = [WsopsRecord(wsops, "create_workspace", call, "start")
                      EXCEPT !.create = call.result]
  /\ UNCHANGED <<http, safe, tool, job, suite, poll, tier, ide, rebuild, stress, perf, cleanup, ds, uat, boot, proj, prog, hw, sync, adv, life>>

\* Test 3
WsopsStart ==
  /\ wsops.pc = "start"
  /\ \E answer \in HelperAnswers :
       LET call == test_start_workspace_session(wsops.create, answer)
       IN wsops' = [WsopsRecord(wsops, "start_workspace_session", call, "stop")
                      EXCEPT !.start = call.result]
  /\ UNCHANGED <<http, safe, tool, job, suite, poll, tier, ide, rebuild, stress, perf, cleanup, ds, uat, boot, proj, prog, hw, sync, adv, life>>

\* Test 4
WsopsStop ==
  /\ wsops.pc = "stop"
  /\ \E answer \in HelperAnswers :
       wsops' = WsopsRecord(wsops, "stop_workspace_session",
                            test_stop_workspace_session(wsops.start, answer), "delete")
  /\ UNCHANGED <<http, safe, tool, job, suite, poll, tier, ide, rebuild, stress, perf, cleanup, ds, uat, boot, proj, prog, hw, sync, adv, life>>

\* Test 5
WsopsDelete ==
  /\ wsops.pc = "delete"
  /\ \E answer \in HelperAnswers :
       wsops' = WsopsRecord(wsops, "delete_workspace",
                            test_delete_workspace(wsops.create, answer), "summary")
  /\ UNCHANGED <<http, safe, tool, job, suite, poll, tier, ide, rebuild, stress, perf, cleanup, ds, uat, boot, proj, prog, hw, sync, adv, life>>

\* overall status and return
WsopsSummary ==
  /\ wsops.pc = "summary"
  /\ wsops' = [wsops EXCEPT !.pc = "done",
                            !.status = WsopsOverallStatus(wsops.operations)]
  /\ UNCHANGED <<http, safe, tool, job, suite, poll, tier, ide, rebuild, stress, perf, cleanup, ds, uat, boot, proj, prog, hw, sync, adv, life>>

WsopsNext ==
  \/ WsopsEnsure \/ WsopsClient \/ WsopsProjectId \/ WsopsList \/ WsopsCreate
  \/ WsopsStart \/ WsopsStop \/ WsopsDelete \/ WsopsSummary

SpecWsops == WsopsInit /\ [][WsopsNext]_vars

\* the DELETE of test_workspace_operations has been sent
WsopsDeleteSent ==
  \E k \in 1..Len(wsops.requests) : wsops.requests[k] = "delete"

\* C35 as stated: in test_workspace_operations, once the project is found,
\* every recorded operation has status PASSED or WARNING, the returned status
\* is PASSED, PARTIAL or WARNING and never FAILED, and a delete request for
\* the workspace is sent if and only if workspace creation succeeded
C35_AsStated ==
  (wsops.pc # "idle" /\ wsops.project_id) =>
    /\ \A k \in 1..Len(wsops.operations) :
         wsops.operations[k].status \in {"PASSED", "WARNING"}
    /\ wsops.pc = "done" =>
         /\ wsops.status \in {"PASSED", "PARTIAL", "WARNING"}
         /\ WsopsDeleteSent <=> wsops.create.success

\* C35: as above, with the delete request sent if and only if workspace
\* creation succeeded and its answer carried a workspace id
C35_DeleteIffCreatedWithId ==
  (wsops.pc # "idle" /\ wsops.project_id) =>
    /\ \A k \in 1..Len(wsops.operations) :
         wsops.operations[k].status \in {"PASSED", "WARNING"}
    /\ wsops.pc = "done" =>
         /\ wsops.status \in {"PASSED", "PARTIAL", "WARNING"}
         /\ WsopsDeleteSent <=>
              (wsops.create.success /\ wsops.create.workspace_id # NoId)

\* the create request answered without an id: the operation is PASSED and
\* no start, stop or delete request follows
C35_Witness ==
  /\ wsops.pc = "done" /\ wsops.project_id
  /\ wsops.create.success /\ wsops.create.workspace_id = NoId
  /\ wsops.operations[2].status = "PASSED"
  /\ wsops.requests = <<"list", "create">>
  /\ wsops.status = "PARTIAL"



\* ---------------------------------------------------------------------------
\* The lifecycle helpers on their own: callers pass them results of other
\* helpers and mappings they build themselves
\* ---------------------------------------------------------------------------

\* the entries of a predecessor's result that the gates read; a mapping
\* without "success" reads as success = FALSE
HelperArguments == [success : BOOLEAN, workspace_id : {NoId, WorkspaceId}]

LifeHelpers == <<"start", "stop", "delete">>

\* the three helpers by name
LifeApply(helper, argument, answer) ==
  CASE helper = "start" -> test_start_workspace_session(argument, answer)
    [] helper = "stop" -> test_stop_workspace_session(argument, answer)
    [] OTHER -> test_delete_workspace(argument, answer)

LifeInit ==
  /\ life = [pc |-> "call", calls |-> <<>>]
  /\ http = Idle /\ safe = Idle /\ tool = Idle /\ job = Idle
  /\ suite = Idle /\ poll = Idle /\ tier = Idle
  /\ ide = Idle /\ rebuild = Idle /\ stress = Idle /\ perf = Idle
  /\ cleanup = Idle /\ ds = Idle /\ uat = Idle /\ boot = Idle
  /\ proj = Idle /\ prog = Idle /\ hw = Idle /\ sync = Idle
  /\ adv = Idle /\ wsops = Idle

\* the next helper is called with some argument; its requests and its result
\* are recorded
LifeCall ==
  /\ life.pc = "call"
  /\ \E argument \in HelperArguments, answer \in HelperAnswers :
       LET helper == LifeHelpers[Len(life.calls) + 1]
           call == LifeApply(helper, argument, answer)
       IN life' = [life EXCEPT
                     !.calls = Append(@, [helper |-> helper, argument |-> argument,
                                          result |-> call.result,
                                          requests |-> call.requests]),
                     !.pc = IF Len(life.calls) + 1 = Len(LifeHelpers)
                            THEN "done" ELSE "call"]
  /\ UNCHANGED <<http, safe, tool, job, suite, poll, tier, ide, rebuild, stress, perf, cleanup, ds, uat, boot, proj, prog, hw, sync, adv, wsops>>

LifeNext == LifeCall

SpecLife == LifeInit /\ [][LifeNext]_vars

\* C36: a helper sends its request only if its predecessor's result allows
\* it: start and DELETE only for a create result with success and a
\* workspace id, stop only for a start result with success; a helper whose
\* gate fails sends no request and returns an error result
C36_GatedOnPredecessor ==
  life.pc # "idle" =>
    \A k \in 1..Len(life.calls) :
      LET call == life.calls[k]
      IN /\ call.requests # <<>> =>
              /\ call.argument.success
              /\ call.helper \in {"start", "delete"} =>
                   call.argument.workspace_id # NoId
              /\ call.requests = <<call.helper>>
         /\ ~(call.argument.success /\ call.argument.workspace_id # NoId) =>
              /\ call.requests = <<>>
              /\ ~call.result.success
              /\ call.result.error # "none"

\* a refused start, a stop that was sent and a refused DELETE
C36_Witness ==
  /\ life.pc = "done"
  /\ ~life.calls[1].argument.success /\ life.calls[1].requests = <<>>
  /\ life.calls[2].requests = <<"stop">> /\ life.calls[2].result.success
  /\ life.calls[3].argument.success /\ life.calls[3].argument.workspace_id = NoId
  /\ life.calls[3].requests = <<>> /\ life.calls[3].result.error = "no_workspace"

=============================================================================
